---- MODULE Spec2Model ----
(***************************************************************************)
(* The SSE relay endpoint of the Daytona MCP server (the /sse route):      *)
(* one subscription request, its outbound channel (a ReadableStream        *)
(* controller), the driver started for it (status poll, sessions poll or   *)
(* log stream) and the abort listener that tears the channel down.         *)
(*                                                                         *)
(* Every action is one uninterrupted run of JavaScript: a callback of the  *)
(* event loop, or the continuation of an async function after one of its   *)
(* awaits.  The continuations of a driver's start (poll or log stream) are *)
(* microtasks: no timer and no I/O callback runs between them, but an      *)
(* abort dispatched from a microtask does.  The upstream (axios) and the   *)
(* client's abort signal are the environment and are nondeterministic.     *)
(*                                                                         *)
(* SpecChannels runs two such requests side by side.  SpecTools is the MCP *)
(* route: the tool handlers that call the upstream or hand out SSE URLs,   *)
(* with handleApiError, formatResponse and the URL's query string.         *)
(***************************************************************************)
EXTENDS Integers, Sequences, FiniteSets, TLC

\* ---------------------------------------------------------------- bounds
\* Upstream fetches one poll driver may issue (the initial one included).
MaxFetches == 3
\* Chunks the upstream log stream may deliver.
MaxChunks == 2
\* Times the abort listener may be invoked in SpecRedispatch.
MaxTeardowns == 2
\* Seconds the clock of SpecTimed runs.
MaxTime == 22
\* Characters of an id given to an MCP tool in SpecTools.
MaxIdLen == 1

FetchIds == 1..MaxFetches

\* ------------------------------------------------- query-string parameters
\* URLSearchParams.get gives null for an absent parameter and the string
\* (possibly empty) otherwise: an optional value is <<>> or <<v>>.
None == <<>>
Some(v) == <<v>>

SandboxIdParams == {None, Some(""), Some("sbx-1"), Some("sbx-2")}
SessionIdParams == {None, Some(""), Some("sess-1")}
CommandIdParams == {None, Some(""), Some("cmd-1")}
EventTypeParams ==
  {None, Some(""), Some("logs"), Some("sandbox-status"), Some("sessions"),
   Some("bogus")}

\* JavaScript truthiness of a string-or-null value.
Truthy(p) == p # None /\ p[1] # ""

\* `p ?? d`: the default only for null.
OrDefaultNullish(p, d) == IF p # None THEN p[1] ELSE d

\* `p || d` on a string-or-null value.
OrDefault(p, d) == IF Truthy(p) THEN p[1] ELSE d

NoRequest ==
  [sandboxId |-> None, sessionId |-> None, commandId |-> None,
   eventType |-> None]

\* ------------------------------------------------------------------ state
VARIABLES
  phase,            \* "idle" | "rejected400" | "streaming"
  request,          \* the query parameters of the request
  events,           \* what controller.enqueue accepted, in order
  closed,           \* controller.close() has been called
  listener,         \* the abort listener is registered on request.signal
  cleanupFunction,  \* TRUE when the variable holds a driver's cleanup closure
  interval,         \* the driver's timer: "none" | "active" | "cleared"
  fetch,            \* poll fetches: "none" | "inflight" | "ok" | "fail"
  dropped,          \* fetches whose emission threw (the channel was closed)
  hes,              \* handleEventStream: "idle" | "awaitInitial" | "awaitGet"
                    \*   | "pollResolved" | "pollRejected" (the driver's
                    \*   await of its first poll is about to resume)
                    \*   | "driverResolved" | "driverRejected" (the await of
                    \*   the driver is about to resume) | "done" | "rejected"
  logStream,        \* upstream log stream: "none" | "connecting" | "open"
                    \*                      | "ended" | "errored" | "failed"
  chunks,           \* chunks the upstream log stream has delivered
  uncaught,         \* origins of the errors that escaped their handler
  teardowns,        \* invocations of the abort listener
  teardownLog,      \* the listener's effects, in order
  now,              \* the clock, in seconds (it runs in SpecTimed only)
  nextTick,         \* when the driver's timer fires next
  issuedAt,         \* when each poll fetch was started
  emitTimes,        \* when each event of the channel was written
  controllerRef,    \* which controller sendEvent and the listener hold
                    \*   (0: no stream constructed)
  intervalRef,      \* which Timeout the cleanup closure holds (0: none)
  created,          \* objects the process has created so far (controllers
                    \*   and Timeouts), over all channels
  self,             \* SpecChannels: the channel the variables above belong to
  parked,           \* SpecChannels: the state of the other channel
  toolCall,         \* SpecTools: the MCP tool invoked and its arguments
  toolPhase,        \* SpecTools: "idle" | "awaiting" | "returned" | "threw"
  toolUpstream,     \* SpecTools: upstream calls the handler has made
  toolOutcome,      \* SpecTools: how the handler's upstream call settled
  toolResult        \* SpecTools: what the handler returned

\* The clock and what is read off it.
tvars == <<now, nextTick, issuedAt, emitTimes>>

vars ==
  <<phase, request, events, closed, listener, cleanupFunction, interval,
    fetch, dropped, hes, logStream, chunks, uncaught, teardowns, teardownLog,
    now, nextTick, issuedAt, emitTimes, controllerRef, intervalRef, created,
    self, parked, toolCall, toolPhase, toolUpstream, toolOutcome,
    toolResult>>

\* The MCP tool call.
toolVars == <<toolCall, toolPhase, toolUpstream, toolOutcome, toolResult>>

\* The eventType the handler works with (the parameter, or its default).
eventType == OrDefault(request.eventType, "sandbox-status")

\* ----------------------------------------------------------------- events
Ev(name, msg, seq) == [name |-> name, msg |-> msg, seq |-> seq]

ConnectedEvent(et) == Ev("connected", et, 0)
DisconnectedEvent == Ev("disconnected", "Client disconnected", 0)
IdsRequiredEvent ==
  Ev("error", "sessionId and commandId required for logs streaming", 0)
UnknownTypeEvent(et) == Ev("error", "Unknown event type: " \o et, 0)
StreamErrorEvent == Ev("error", "Stream error", 0)
LogsFailedEvent == Ev("error", "Failed to stream command logs", 0)
StatusFailedEvent == Ev("error", "Failed to get sandbox status", 0)
SessionsFailedEvent == Ev("error", "Failed to get sessions", 0)

Names(evs) == [i \in 1..Len(evs) |-> evs[i].name]
CountName(evs, n) == Cardinality({i \in 1..Len(evs) : evs[i].name = n})

\* --------------------------------------------------------------- sendEvent
\* A call's outcome: the channel's content afterwards and whether it threw.
Returned(evs) == [events |-> evs, threw |-> FALSE]
Threw(evs) == [events |-> evs, threw |-> TRUE]

\* sendEvent that accepts the chunk whatever the controller's state.
SendEventUnchecked(evs, isClosed, e) == Returned(Append(evs, e))

\* controller.enqueue throws a TypeError once close() has been called;
\* sendEvent has no guard and no try/catch, so the error is its caller's.
sendEvent(evs, isClosed, e) ==
  IF isClosed THEN Threw(evs) ELSE Returned(Append(evs, e))

\* ------------------------------------------------------------ poll drivers
\* pollStatus without its try/catch: an upstream failure is rethrown.
pollStatusNoCatch(sb, evs, isClosed, ok, id) ==
  IF ok THEN sendEvent(evs, isClosed, Ev("sandbox-status", sb, id))
        ELSE Threw(evs)

\* pollStatus after its upstream get has settled (ok, or rejected); the
\* event carries the sandboxId of the request and the fetched payload.
pollStatus(sb, evs, isClosed, ok, id) ==
  LET try == IF ok THEN sendEvent(evs, isClosed, Ev("sandbox-status", sb, id))
                   ELSE Threw(evs)
  IN IF try.threw THEN sendEvent(try.events, isClosed, StatusFailedEvent)
                  ELSE try

\* pollSessions writing its payload under the status driver's event name.
pollSessionsAsStatus(sb, evs, isClosed, ok, id) ==
  LET try == IF ok THEN sendEvent(evs, isClosed, Ev("sandbox-status", sb, id))
                   ELSE Threw(evs)
  IN IF try.threw THEN sendEvent(try.events, isClosed, SessionsFailedEvent)
                  ELSE try

\* pollSessions after its upstream get has settled.
pollSessions(sb, evs, isClosed, ok, id) ==
  LET try == IF ok THEN sendEvent(evs, isClosed, Ev("sessions-update", sb, id))
                   ELSE Threw(evs)
  IN IF try.threw THEN sendEvent(try.events, isClosed, SessionsFailedEvent)
                  ELSE try

\* The poll function of the driver the switch selected.
Poll(et, sb, evs, isClosed, ok, id) ==
  IF et = "sandbox-status" THEN pollStatus(sb, evs, isClosed, ok, id)
                           ELSE pollSessions(sb, evs, isClosed, ok, id)

\* The switch with every eventType other than logs handled as a poll.
IsPollDefault(et) == et # "logs"

IsPoll(et) == et \in {"sandbox-status", "sessions"}

Issued == {f \in FetchIds : fetch[f] # "none"}
InFlight == {f \in FetchIds : fetch[f] = "inflight"}

\* Upstream calls made so far (daytonaClient.get).
UpstreamCalls ==
  Cardinality(Issued) + (IF logStream = "none" THEN 0 ELSE 1)

\* ------------------------------------------------------- the other channel
\* What a channel's closure holds before its request has arrived.
IdleChannel ==
  [phase |-> "idle", request |-> NoRequest, events |-> <<>>,
   closed |-> FALSE, listener |-> FALSE, cleanupFunction |-> FALSE,
   interval |-> "none", fetch |-> [f \in FetchIds |-> "none"],
   dropped |-> {}, hes |-> "idle", logStream |-> "none", chunks |-> 0,
   uncaught |-> {}, teardowns |-> 0, teardownLog |-> <<>>, nextTick |-> 0,
   issuedAt |-> [f \in FetchIds |-> 0], emitTimes |-> <<>>,
   controllerRef |-> 0, intervalRef |-> 0]

\* ------------------------------------------------------------ the tool call
\* No tool has been invoked.
NoCall ==
  [tool |-> "none", sandboxId |-> <<>>, sessionId |-> None,
   commandId |-> None, eventType |-> None, useSSE |-> None,
   organizationId |-> None, userId |-> None, name |-> None, id |-> None,
   volumeId |-> None]

\* An axios error: `response` (status and body) when the upstream answered,
\* `request` when the request was sent, `message` always.
NoError == [response |-> None, request |-> FALSE, message |-> ""]

\* The bodies of an upstream answer as the handlers see them: an empty one
\* (falsy in `response.data || ...`) or some data, passed on as it is.
EmptyBody == ""
ResponseBodies == {EmptyBody, "response.data"}

\* The handler's upstream call has not settled.
NotSettled == [kind |-> "none", error |-> NoError, data |-> EmptyBody]

\* The handler has returned nothing yet.
NoResult == [type |-> "none", heading |-> "", body |-> ""]

\* ------------------------------------------------------------------- Init
Init ==
  /\ phase = "idle"
  /\ request = NoRequest
  /\ events = <<>>
  /\ closed = FALSE
  /\ listener = FALSE
  /\ cleanupFunction = FALSE
  /\ interval = "none"
  /\ fetch = [f \in FetchIds |-> "none"]
  /\ dropped = {}
  /\ hes = "idle"
  /\ logStream = "none"
  /\ chunks = 0
  /\ uncaught = {}
  /\ teardowns = 0
  /\ teardownLog = <<>>
  /\ now = 0
  /\ nextTick = 0
  /\ issuedAt = [f \in FetchIds |-> 0]
  /\ emitTimes = <<>>
  /\ controllerRef = 0
  /\ intervalRef = 0
  /\ created = [controllers |-> 0, timeouts |-> 0]
  /\ self = 1
  /\ parked = IdleChannel
  /\ toolCall = NoCall
  /\ toolPhase = "idle"
  /\ toolUpstream = 0
  /\ toolOutcome = NotSettled
  /\ toolResult = NoResult

\* ------------------------------------------------------------------ clock
\* pollInterval of streamSandboxStatus and of streamSessions, in seconds
\* (5000 ms and 10000 ms).
StatusPollInterval == 5
SessionsPollInterval == 10

\* Both drivers polling at the status driver's period.
pollIntervalSame(et) == StatusPollInterval

pollInterval(et) ==
  IF et = "sandbox-status" THEN StatusPollInterval ELSE SessionsPollInterval

\* What a step of the program does to the clock's readings (part of every
\* action; in Spec no time passes and the timer may fire at any moment): it
\* takes no time; every event it writes and every fetch it starts is stamped;
\* setInterval arms the timer one period ahead, and a tick re-arms it.
Clock ==
  /\ now' = now
  /\ emitTimes' =
       emitTimes \o [i \in 1..(Len(events') - Len(events)) |-> now]
  /\ issuedAt' =
       [f \in FetchIds |->
          IF fetch[f] = "none" /\ fetch'[f] # "none" THEN now
                                                    ELSE issuedAt[f]]
  /\ nextTick' =
       IF interval # "active" /\ interval' = "active"
         THEN now + pollInterval(eventType)
         ELSE IF interval = "active" /\ Issued' # Issued
                THEN nextTick + pollInterval(eventType)
                ELSE nextTick

\* --------------------------------------------------- the rest of the process
\* new ReadableStream({start(controller) {...}}): every stream is given a
\* controller of its own; n controllers exist already.
newController(n) == n + 1

\* A driver that keeps its timer in one slot shared by all drivers.
setIntervalShared(n) == 1

\* setInterval(...): every call returns a Timeout of its own; n exist
\* already.
setInterval(n) == n + 1

\* The step constructs the stream (GET), or arms the timer (the driver).
ConstructsStream == phase = "idle" /\ phase' = "streaming"
ArmsTimer == interval # "active" /\ interval' = "active"

\* The objects the step creates and the references its closures keep: the
\* controller is a parameter of start, captured by sendEvent and by the
\* listener; the Timeout is a const of the driver, captured by the closure
\* it returns.
References ==
  /\ controllerRef' = IF ConstructsStream
                        THEN newController(created.controllers)
                        ELSE controllerRef
  /\ intervalRef' = IF ArmsTimer THEN setInterval(created.timeouts)
                                 ELSE intervalRef
  /\ created' =
       [controllers |-> created.controllers + (IF ConstructsStream THEN 1 ELSE 0),
        timeouts |-> created.timeouts + (IF ArmsTimer THEN 1 ELSE 0)]

\* What a step taken for one channel does to another channel p.  The module
\* holds no mutable state (its one object, the axios client, is never
\* written), and cleanupFunction is a variable of the request's own
\* start(controller) call; so the step reaches p only through an object
\* both hold: what it enqueues on or closes is its controller, what it
\* clears is its Timeout.
otherChannels(p) ==
  LET sameController == controllerRef # 0 /\ p.controllerRef = controllerRef
      sameTimeout == intervalRef # 0 /\ p.intervalRef = intervalRef
      q == IF sameController
             THEN [p EXCEPT !.events = events', !.closed = closed',
                            !.emitTimes = emitTimes']
             ELSE p
  IN IF sameTimeout /\ interval = "active" /\ interval' = "cleared"
       THEN [q EXCEPT !.interval = IF @ = "active" THEN "cleared" ELSE @]
       ELSE q

\* What a step of the SSE handler does outside its own channel (part of
\* every action of the handler).
Elsewhere ==
  /\ References
  /\ parked' = otherChannels(parked)
  /\ self' = self
  /\ UNCHANGED toolVars

\* ------------------------------------------------------------- microtasks
\* An async function of the driver's start has a continuation queued.
Resuming(h) ==
  h \in {"pollResolved", "pollRejected", "driverResolved", "driverRejected",
         "logsResolved", "logsRejected"}

\* The microtask queue is not empty: the event loop runs no timer, no I/O
\* callback and no new request until it is.
MicrotasksPending == Resuming(hes) \/ Resuming(parked.hes)

\* ---------------------------------------------------------------- GET
\* The precondition of the logs case of the switch.
LogsIdsPresentEither(se, co) == Truthy(se) \/ Truthy(co)

LogsIdsPresent(se, co) == Truthy(se) /\ Truthy(co)

\* The switch with the logs case falling through into the status case.
handleEventStreamStartFallthrough(evs, et, se, co) ==
  CASE et = "logs" /\ LogsIdsPresent(se, co) ->
         [events |-> evs, hes |-> "awaitGet", logStream |-> "connecting",
          firstFetch |-> "inflight"]
    [] et = "logs" /\ ~LogsIdsPresent(se, co) ->
         [events |-> sendEvent(evs, FALSE, IdsRequiredEvent).events,
          hes |-> "awaitInitial", logStream |-> "none",
          firstFetch |-> "inflight"]
    [] IsPoll(et) ->
         [events |-> evs, hes |-> "awaitInitial", logStream |-> "none",
          firstFetch |-> "inflight"]
    [] OTHER ->
         [events |-> sendEvent(evs, FALSE, UnknownTypeEvent(et)).events,
          hes |-> "done", logStream |-> "none", firstFetch |-> "none"]

\* handleEventStream up to its first await (or to its end when it awaits
\* nothing): what it wrote, where it stands, which upstream call it opened.
handleEventStreamStart(evs, et, se, co) ==
  CASE et = "logs" /\ LogsIdsPresent(se, co) ->
         [events |-> evs, hes |-> "awaitGet", logStream |-> "connecting",
          firstFetch |-> "none"]
    [] et = "logs" /\ ~LogsIdsPresent(se, co) ->
         [events |-> sendEvent(evs, FALSE, IdsRequiredEvent).events,
          hes |-> "done", logStream |-> "none", firstFetch |-> "none"]
    [] IsPoll(et) ->
         [events |-> evs, hes |-> "awaitInitial", logStream |-> "none",
          firstFetch |-> "inflight"]
    [] OTHER ->
         [events |-> sendEvent(evs, FALSE, UnknownTypeEvent(et)).events,
          hes |-> "done", logStream |-> "none", firstFetch |-> "none"]

\* start(controller) with the handshake written after the dispatch.
startDispatchFirst(req) ==
  LET et == OrDefault(req.eventType, "sandbox-status")
      h == handleEventStreamStart(<<>>, et, req.sessionId, req.commandId)
  IN [h EXCEPT !.events = sendEvent(h.events, FALSE, ConnectedEvent(et)).events]

\* start(controller): the handshake, then handleEventStream().
start(req) ==
  LET et == OrDefault(req.eventType, "sandbox-status")
      connected == sendEvent(<<>>, FALSE, ConnectedEvent(et)).events
  IN handleEventStreamStart(connected, et, req.sessionId, req.commandId)

\* The sandboxId test that treats only an absent parameter as missing.
MissingSandboxIdNullOnly(sb) == sb = None

\* `!sandboxId`: the parameter is absent or empty.
MissingSandboxId(sb) == ~Truthy(sb)

\* GET: a request without sandboxId is answered 400; otherwise the stream is
\* constructed, which runs start(controller) and registers the abort listener.
GET ==
  \E sb \in SandboxIdParams, se \in SessionIdParams, co \in CommandIdParams,
     ty \in EventTypeParams :
    LET req == [sandboxId |-> sb, sessionId |-> se, commandId |-> co,
                eventType |-> ty]
        s == start(req)
    IN /\ ~MicrotasksPending
       /\ phase = "idle"
       /\ request' = req
       /\ IF MissingSandboxId(sb)
            THEN /\ phase' = "rejected400"
                 /\ UNCHANGED <<events, hes, logStream, fetch, listener>>
            ELSE /\ phase' = "streaming"
                 /\ events' = s.events
                 /\ hes' = s.hes
                 /\ logStream' = s.logStream
                 /\ fetch' = [fetch EXCEPT ![1] = s.firstFetch]
                 /\ listener' = TRUE
       /\ UNCHANGED <<closed, cleanupFunction, interval, dropped, chunks,
                      uncaught, teardowns, teardownLog>>
       /\ Clock
       /\ Elsewhere

\* ------------------------------------------------------------ poll driver
\* The initial fetch settles: pollStatus/pollSessions resumes and writes its
\* event, or `error` from its catch; its promise resolves, or rejects when
\* sendEvent threw (the channel was closed).  The driver, which awaits it,
\* resumes in a later microtask.
SettleInitial ==
  \E ok \in BOOLEAN :
    LET r == Poll(eventType, request.sandboxId[1], events, closed, ok, 1)
    IN /\ ~MicrotasksPending
       /\ hes = "awaitInitial"
       /\ fetch[1] = "inflight"
       /\ fetch' = [fetch EXCEPT ![1] = IF ok THEN "ok" ELSE "fail"]
       /\ events' = r.events
       /\ dropped' = IF r.threw THEN dropped \cup {1} ELSE dropped
       /\ hes' = IF r.threw THEN "pollRejected" ELSE "pollResolved"
       /\ UNCHANGED <<phase, request, closed, listener, cleanupFunction,
                      interval, logStream, chunks, uncaught, teardowns,
                      teardownLog>>
       /\ Clock
       /\ Elsewhere

\* The driver resumes after `await pollStatus()`: it calls setInterval and
\* returns the cleanup closure, whatever has become of the channel; or, when
\* the poll rejected, it rejects without a timer.  handleEventStream, which
\* awaits the driver, resumes in a later microtask.
StartInterval ==
  /\ hes \in {"pollResolved", "pollRejected"}
  /\ interval' = IF hes = "pollResolved" THEN "active" ELSE interval
  /\ hes' = IF hes = "pollResolved" THEN "driverResolved"
                                    ELSE "driverRejected"
  /\ UNCHANGED <<phase, request, events, closed, listener, cleanupFunction,
                 fetch, dropped, logStream, chunks, uncaught, teardowns,
                 teardownLog>>
  /\ Clock
  /\ Elsewhere

\* handleEventStream resumes after `await streamSandboxStatus(...)`: it
\* stores the closure in cleanupFunction; or, when the driver rejected, its
\* catch calls sendEvent, whose error on a closed channel leaves
\* handleEventStream as an unhandled rejection.
RecordCleanup ==
  LET c == IF hes = "driverRejected"
             THEN sendEvent(events, closed, StreamErrorEvent)
             ELSE Returned(events)
  IN /\ hes \in {"driverResolved", "driverRejected"}
     /\ cleanupFunction' = IF hes = "driverResolved" THEN TRUE
                                                     ELSE cleanupFunction
     /\ events' = c.events
     /\ hes' = IF c.threw THEN "rejected" ELSE "done"
     /\ uncaught' = IF c.threw THEN uncaught \cup {"handleEventStream"}
                               ELSE uncaught
     /\ UNCHANGED <<phase, request, closed, listener, interval, fetch,
                    dropped, logStream, chunks, teardowns, teardownLog>>
     /\ Clock
     /\ Elsewhere

\* The timer fires: the poll function is called and opens its upstream get,
\* whether or not an earlier get is still pending.
Tick ==
  \E f \in FetchIds :
    /\ ~MicrotasksPending
    /\ interval = "active"
    /\ fetch[f] = "none"
    /\ \A g \in FetchIds : g < f => fetch[g] # "none"
    /\ fetch' = [fetch EXCEPT ![f] = "inflight"]
    /\ UNCHANGED <<phase, request, events, closed, listener, cleanupFunction,
                   interval, dropped, hes, logStream, chunks, uncaught,
                   teardowns, teardownLog>>
    /\ Clock
    /\ Elsewhere

\* The get of a periodic tick settles; nobody awaits the promise of a tick,
\* so an error thrown by its catch block is an unhandled rejection.
SettleTick ==
  \E f \in FetchIds \ {1}, ok \in BOOLEAN :
    LET r == Poll(eventType, request.sandboxId[1], events, closed, ok, f)
    IN /\ ~MicrotasksPending
       /\ fetch[f] = "inflight"
       /\ fetch' = [fetch EXCEPT ![f] = IF ok THEN "ok" ELSE "fail"]
       /\ events' = r.events
       /\ dropped' = IF r.threw THEN dropped \cup {f} ELSE dropped
       /\ uncaught' = IF r.threw THEN uncaught \cup {"poll"} ELSE uncaught
       /\ UNCHANGED <<phase, request, closed, listener, cleanupFunction,
                      interval, hes, logStream, chunks, teardowns,
                      teardownLog>>
       /\ Clock
       /\ Elsewhere

\* ------------------------------------------------------- log-stream driver
\* The 'end' callback writing the event of the 'error' callback.
onEndAsError(evs, isClosed) ==
  sendEvent(evs, isClosed, Ev("log-error", "upstream error", 0))

\* The catch of streamCommandLogs reporting with the stream's error event.
streamCommandLogsCatchAsLogError(evs, isClosed) ==
  sendEvent(evs, isClosed, Ev("log-error", "upstream error", 0))

\* response.data.on('data'): the n-th chunk, decoded, as a `log` event.
onData(evs, isClosed, n) == sendEvent(evs, isClosed, Ev("log", "", n))

\* response.data.on('end').
onEnd(evs, isClosed) ==
  sendEvent(evs, isClosed, Ev("log-complete", "Log stream ended", 0))

\* response.data.on('error').
onError(evs, isClosed) ==
  sendEvent(evs, isClosed, Ev("log-error", "upstream error", 0))

\* The catch block of streamCommandLogs.
streamCommandLogsCatch(evs, isClosed) ==
  sendEvent(evs, isClosed, LogsFailedEvent)

\* The upstream get resolves with the stream: streamCommandLogs resumes,
\* registers the three callbacks and returns nothing.  handleEventStream,
\* which awaits it, resumes in a later microtask.
LogsEstablished ==
  /\ ~MicrotasksPending
  /\ hes = "awaitGet"
  /\ logStream = "connecting"
  /\ logStream' = "open"
  /\ hes' = "logsResolved"
  /\ UNCHANGED <<phase, request, events, closed, listener, cleanupFunction,
                 interval, fetch, dropped, chunks, uncaught, teardowns,
                 teardownLog>>
  /\ Clock
  /\ Elsewhere

\* The upstream get rejects: streamCommandLogs resumes in its catch, which
\* emits `error`; its promise resolves, or rejects when sendEvent threw (the
\* channel was closed).  handleEventStream resumes in a later microtask.
LogsGetFails ==
  LET r == streamCommandLogsCatch(events, closed)
  IN /\ ~MicrotasksPending
     /\ hes = "awaitGet"
     /\ logStream = "connecting"
     /\ logStream' = "failed"
     /\ events' = r.events
     /\ hes' = IF r.threw THEN "logsRejected" ELSE "logsResolved"
     /\ UNCHANGED <<phase, request, closed, listener, cleanupFunction,
                    interval, fetch, dropped, chunks, uncaught, teardowns,
                    teardownLog>>
     /\ Clock
     /\ Elsewhere

\* handleEventStream resumes after `await streamCommandLogs(...)`: it breaks
\* out of the switch and ends; or, when streamCommandLogs rejected, its catch
\* calls sendEvent, whose error on a closed channel leaves handleEventStream
\* as an unhandled rejection.
LogsAwaited ==
  LET c == IF hes = "logsRejected"
             THEN sendEvent(events, closed, StreamErrorEvent)
             ELSE Returned(events)
  IN /\ hes \in {"logsResolved", "logsRejected"}
     /\ events' = c.events
     /\ hes' = IF c.threw THEN "rejected" ELSE "done"
     /\ uncaught' = IF c.threw THEN uncaught \cup {"handleEventStream"}
                               ELSE uncaught
     /\ UNCHANGED <<phase, request, closed, listener, cleanupFunction,
                    interval, fetch, dropped, logStream, chunks, teardowns,
                    teardownLog>>
     /\ Clock
     /\ Elsewhere

\* 'data': one chunk arrives.
LogData ==
  LET r == onData(events, closed, chunks + 1)
  IN /\ ~MicrotasksPending
     /\ logStream = "open"
     /\ chunks < MaxChunks
     /\ chunks' = chunks + 1
     /\ events' = r.events
     /\ uncaught' = IF r.threw THEN uncaught \cup {"data"} ELSE uncaught
     /\ UNCHANGED <<phase, request, closed, listener, cleanupFunction,
                    interval, fetch, dropped, hes, logStream, teardowns,
                    teardownLog>>
     /\ Clock
     /\ Elsewhere

\* 'end': the upstream stream completes.
LogEnd ==
  LET r == onEnd(events, closed)
  IN /\ ~MicrotasksPending
     /\ logStream = "open"
     /\ logStream' = "ended"
     /\ events' = r.events
     /\ uncaught' = IF r.threw THEN uncaught \cup {"end"} ELSE uncaught
     /\ UNCHANGED <<phase, request, closed, listener, cleanupFunction,
                    interval, fetch, dropped, hes, chunks, teardowns,
                    teardownLog>>
     /\ Clock
     /\ Elsewhere

\* The 'error' callback reopening the upstream call (a retry).
LogErrorRetry ==
  LET r == onError(events, closed)
  IN /\ ~MicrotasksPending
     /\ logStream = "open"
     /\ logStream' = "connecting"
     /\ hes' = "awaitGet"
     /\ events' = r.events
     /\ uncaught' = IF r.threw THEN uncaught \cup {"error"} ELSE uncaught
     /\ UNCHANGED <<phase, request, closed, listener, cleanupFunction,
                    interval, fetch, dropped, chunks, teardowns,
                    teardownLog>>
     /\ Clock
     /\ Elsewhere

\* 'error': the upstream stream fails.
LogError ==
  LET r == onError(events, closed)
  IN /\ ~MicrotasksPending
     /\ logStream = "open"
     /\ logStream' = "errored"
     /\ events' = r.events
     /\ uncaught' = IF r.threw THEN uncaught \cup {"error"} ELSE uncaught
     /\ UNCHANGED <<phase, request, closed, listener, cleanupFunction,
                    interval, fetch, dropped, hes, chunks, teardowns,
                    teardownLog>>
     /\ Clock
     /\ Elsewhere

\* ---------------------------------------------------------- abort listener
\* The listener with close() ahead of the `disconnected` event.
AbortListenerCloseFirst ==
  LET s == sendEvent(events, TRUE, DisconnectedEvent)
  IN /\ teardowns' = teardowns + 1
     /\ interval' = IF cleanupFunction THEN "cleared" ELSE interval
     /\ closed' = TRUE
     /\ events' = s.events
     /\ uncaught' = uncaught \cup {"abort"}
     /\ teardownLog' =
          teardownLog \o (IF cleanupFunction THEN <<"cleanup">> ELSE <<>>)
                      \o <<"close">>
     /\ UNCHANGED <<phase, request, listener, cleanupFunction, fetch, dropped,
                    hes, logStream, chunks>>
     /\ Clock
     /\ Elsewhere

\* A cleanup closure that fails when the timer is no longer running.
cleanupCallOnce(iv) ==
  IF iv = "active" THEN [interval |-> "cleared", threw |-> FALSE]
                   ELSE [interval |-> iv, threw |-> TRUE]

\* The closure a poll driver returns, `() => clearInterval(interval)`, called
\* on a timer in state iv: clearInterval stops an active timer and does
\* nothing (and throws nothing) for a timer that is already cleared.
cleanupCall(iv) ==
  [interval |-> IF iv = "active" THEN "cleared" ELSE iv, threw |-> FALSE]

\* The listener calling cleanupFunction() without the `if (cleanupFunction)`
\* test: calling undefined is a TypeError.
AbortListenerNoNullCheck ==
  LET c == IF cleanupFunction THEN cleanupCall(interval)
                              ELSE [interval |-> interval, threw |-> TRUE]
      s == IF c.threw THEN Threw(events)
                      ELSE sendEvent(events, closed, DisconnectedEvent)
  IN /\ teardowns' = teardowns + 1
     /\ interval' = c.interval
     /\ events' = s.events
     /\ closed' = IF s.threw THEN closed ELSE TRUE
     /\ uncaught' = IF c.threw THEN uncaught \cup {"cleanup"}
                    ELSE IF s.threw THEN uncaught \cup {"abort"}
                    ELSE uncaught
     /\ teardownLog' =
          teardownLog
            \o (IF cleanupFunction /\ ~c.threw THEN <<"cleanup">> ELSE <<>>)
            \o (IF s.threw THEN <<>> ELSE <<"disconnected", "close">>)
     /\ UNCHANGED <<phase, request, listener, cleanupFunction, fetch, dropped,
                    hes, logStream, chunks>>
     /\ Clock
     /\ Elsewhere

\* The listener's body: the recorded cleanup (if one is recorded), then the
\* `disconnected` event, then controller.close(); a throw ends it there.
AbortListener ==
  LET c == IF cleanupFunction THEN cleanupCall(interval)
                              ELSE [interval |-> interval, threw |-> FALSE]
      s == IF c.threw THEN Threw(events)
                      ELSE sendEvent(events, closed, DisconnectedEvent)
  IN /\ teardowns' = teardowns + 1
     /\ interval' = c.interval
     /\ events' = s.events
     /\ closed' = IF s.threw THEN closed ELSE TRUE
     /\ uncaught' = IF c.threw THEN uncaught \cup {"cleanup"}
                    ELSE IF s.threw THEN uncaught \cup {"abort"}
                    ELSE uncaught
     /\ teardownLog' =
          teardownLog
            \o (IF cleanupFunction /\ ~c.threw THEN <<"cleanup">> ELSE <<>>)
            \o (IF s.threw THEN <<>> ELSE <<"disconnected", "close">>)
     /\ UNCHANGED <<phase, request, listener, cleanupFunction, fetch, dropped,
                    hes, logStream, chunks>>
     /\ Clock
     /\ Elsewhere

\* request.signal fires `abort` (once: an AbortSignal aborts once).
Abort ==
  /\ listener
  /\ teardowns = 0
  /\ AbortListener

\* The listener is registered without {once: true} and keeps no flag of its
\* own: a second `abort` event dispatched on the signal runs it again.
Redispatch ==
  /\ listener
  /\ teardowns >= 1
  /\ teardowns < MaxTeardowns
  /\ AbortListener

\* ----------------------------------------------------------- drivers alive
\* A poll driver is alive from its start (initial fetch pending, then about
\* to call setInterval) and while its timer is active; a log-stream driver
\* while its upstream call is being opened or its stream is open.
PollDriverAlive ==
  interval = "active" \/ fetch[1] = "inflight" \/ hes = "pollResolved"
LogDriverAlive == logStream \in {"connecting", "open"}
DriversAlive ==
  (IF PollDriverAlive THEN 1 ELSE 0) + (IF LogDriverAlive THEN 1 ELSE 0)

\* ---------------------------------------------------------- specifications
Next ==
  \/ GET
  \/ SettleInitial
  \/ StartInterval
  \/ RecordCleanup
  \/ Tick
  \/ SettleTick
  \/ LogsEstablished
  \/ LogsGetFails
  \/ LogsAwaited
  \/ LogData
  \/ LogEnd
  \/ LogError
  \/ Abort

Spec == Init /\ [][Next]_vars

NextRedispatch == Next \/ Redispatch

SpecRedispatch == Init /\ [][NextRedispatch]_vars

\* ------------------------------------------------------- the timed drivers
\* A poll subscription (the ids of the logs kind play no part in it).
GETPoll ==
  /\ GET
  /\ request'.sandboxId = Some("sbx-1")
  /\ request'.sessionId = None
  /\ request'.commandId = None
  /\ request'.eventType \in {Some("sandbox-status"), Some("sessions")}

\* The timer fires when its period has elapsed.
TimedTick ==
  /\ now = nextTick
  /\ Tick

\* One second passes, before or after a teardown, but not past a due timer.
\* A pending get may take any time: the axios client sets no timeout.  The
\* clock starts with the request.
Advance ==
  /\ ~MicrotasksPending
  /\ phase # "idle"
  /\ now < MaxTime
  /\ interval = "active" => now < nextTick
  /\ now' = now + 1
  /\ UNCHANGED <<phase, request, events, closed, listener, cleanupFunction,
                 interval, fetch, dropped, hes, logStream, chunks, uncaught,
                 teardowns, teardownLog, nextTick, issuedAt, emitTimes>>
  /\ Elsewhere

NextTimed ==
  \/ GETPoll
  \/ SettleInitial
  \/ StartInterval
  \/ RecordCleanup
  \/ TimedTick
  \/ SettleTick
  \/ Abort
  \/ Advance

SpecTimed == Init /\ [][NextTimed]_vars

TypeOK ==
  /\ phase \in {"idle", "rejected400", "streaming"}
  /\ closed \in BOOLEAN
  /\ listener \in BOOLEAN
  /\ cleanupFunction \in BOOLEAN
  /\ interval \in {"none", "active", "cleared"}
  /\ fetch \in [FetchIds -> {"none", "inflight", "ok", "fail"}]
  /\ dropped \subseteq FetchIds
  /\ hes \in {"idle", "awaitInitial", "awaitGet", "pollResolved",
             "pollRejected", "driverResolved", "driverRejected",
             "logsResolved", "logsRejected", "done", "rejected"}
  /\ logStream \in {"none", "connecting", "open", "ended", "errored", "failed"}
  /\ chunks \in 0..MaxChunks
  /\ teardowns \in 0..MaxTeardowns
  /\ now \in 0..MaxTime
  /\ issuedAt \in [FetchIds -> 0..MaxTime]
  /\ controllerRef \in 0..2
  /\ intervalRef \in 0..2
  /\ created.controllers \in 0..2
  /\ created.timeouts \in 0..2
  /\ self \in {1, 2}
  /\ toolPhase \in {"idle", "awaiting", "returned", "threw"}
  /\ toolUpstream \in 0..1
  /\ toolOutcome.kind \in {"none", "ok", "error"}

\* ------------------------------------------------------------ two channels
\* Two requests served by the same process.  The variables of the handler
\* show the channel whose callbacks the event loop is running (self); the
\* state of the other channel waits in `parked`.
ChannelState ==
  [phase |-> phase, request |-> request, events |-> events,
   closed |-> closed, listener |-> listener,
   cleanupFunction |-> cleanupFunction, interval |-> interval,
   fetch |-> fetch, dropped |-> dropped, hes |-> hes,
   logStream |-> logStream, chunks |-> chunks, uncaught |-> uncaught,
   teardowns |-> teardowns, teardownLog |-> teardownLog,
   nextTick |-> nextTick, issuedAt |-> issuedAt, emitTimes |-> emitTimes,
   controllerRef |-> controllerRef, intervalRef |-> intervalRef]

\* The event loop turns to the other channel: no code of the handler runs.
Switch ==
  /\ parked' = ChannelState
  /\ self' = 3 - self
  /\ phase' = parked.phase
  /\ request' = parked.request
  /\ events' = parked.events
  /\ closed' = parked.closed
  /\ listener' = parked.listener
  /\ cleanupFunction' = parked.cleanupFunction
  /\ interval' = parked.interval
  /\ fetch' = parked.fetch
  /\ dropped' = parked.dropped
  /\ hes' = parked.hes
  /\ logStream' = parked.logStream
  /\ chunks' = parked.chunks
  /\ uncaught' = parked.uncaught
  /\ teardowns' = parked.teardowns
  /\ teardownLog' = parked.teardownLog
  /\ nextTick' = parked.nextTick
  /\ issuedAt' = parked.issuedAt
  /\ emitTimes' = parked.emitTimes
  /\ controllerRef' = parked.controllerRef
  /\ intervalRef' = parked.intervalRef
  /\ now' = now
  /\ UNCHANGED <<created, toolVars>>

\* The subscriptions of the two-channel runs: a status poll, and the logs
\* of a command.
ChannelRequests ==
  {[sandboxId |-> Some("sbx-1"), sessionId |-> None, commandId |-> None,
    eventType |-> Some("sandbox-status")],
   [sandboxId |-> Some("sbx-2"), sessionId |-> Some("sess-1"),
    commandId |-> Some("cmd-1"), eventType |-> Some("logs")]}

GETChannel ==
  /\ GET
  /\ request' \in ChannelRequests

NextChannels ==
  \/ GETChannel
  \/ SettleInitial
  \/ StartInterval
  \/ RecordCleanup
  \/ Tick
  \/ SettleTick
  \/ LogsEstablished
  \/ LogsGetFails
  \/ LogsAwaited
  \/ LogData
  \/ LogEnd
  \/ LogError
  \/ Abort
  \/ Switch

SpecChannels == Init /\ [][NextChannels]_vars

\* ------------------------------------------------------------ MCP tools
\* The tools of the MCP route that hand out SSE URLs or call the upstream,
\* and the two helpers every tool handler returns through.
\*
\* An id is a sequence of characters, so that what a URL does to `&` and `=`
\* shows; a query string is a sequence of tokens: characters, and parameter
\* names and eventType values written as one token each.
IdChars == {"a", "&", "="}

RECURSIVE IdsOfLen(_)
IdsOfLen(n) ==
  IF n = 0 THEN {<<>>}
           ELSE {Append(cs, c) : cs \in IdsOfLen(n - 1), c \in IdChars}

\* z.string(): any string, the empty one included.
Ids == UNION {IdsOfLen(n) : n \in 0..MaxIdLen}
\* z.string().optional()
OptIds == {None} \cup {Some(cs) : cs \in Ids}
\* z.enum(['logs', 'sandbox-status', 'sessions']).optional()
EventTypeArgs == {None, Some("logs"), Some("sandbox-status"), Some("sessions")}
\* z.boolean().optional()
UseSSEArgs == {None, Some(FALSE), Some(TRUE)}

\* The string a sequence of tokens spells.
RECURSIVE Str(_)
Str(cs) == IF cs = <<>> THEN "" ELSE cs[1] \o Str(Tail(cs))

\* JavaScript truthiness of an optional string and of an optional boolean.
TruthyId(p) == p # None /\ p[1] # <<>>
TruthyFlag(p) == p # None /\ p[1]

\* application/x-www-form-urlencoded serialisation of one character.
encodeChar(c) ==
  CASE c = "&" -> <<"%", "2", "6">>
    [] c = "=" -> <<"%", "3", "D">>
    [] c = "%" -> <<"%", "2", "5">>
    [] c = "+" -> <<"%", "2", "B">>
    [] c = " " -> <<"+">>
    [] OTHER -> <<c>>

\* A serialiser that writes every character as it is.
urlencodeNone(cs) == cs

\* URLSearchParams.toString on one name or value.
RECURSIVE urlencode(_)
urlencode(cs) ==
  IF cs = <<>> THEN <<>> ELSE encodeChar(cs[1]) \o urlencode(Tail(cs))

\* The byte of a percent code.
PercentCodes ==
  {<<"2", "6">>, <<"3", "D">>, <<"2", "5">>, <<"2", "B">>}
percentByte(h) ==
  CASE h = <<"2", "6">> -> "&"
    [] h = <<"3", "D">> -> "="
    [] h = <<"2", "5">> -> "%"
    [] h = <<"2", "B">> -> "+"

\* The URL parser on one name or value: `+` is a space, a percent code is
\* its byte, a `%` that starts no code stays.
RECURSIVE urldecode(_)
urldecode(cs) ==
  IF cs = <<>> THEN <<>>
  ELSE IF cs[1] = "+" THEN <<" ">> \o urldecode(Tail(cs))
  ELSE IF cs[1] = "%" /\ Len(cs) >= 3 /\ <<cs[2], cs[3]>> \in PercentCodes
    THEN <<percentByte(<<cs[2], cs[3]>>)>> \o urldecode(SubSeq(cs, 4, Len(cs)))
  ELSE <<cs[1]>> \o urldecode(Tail(cs))

\* new URLSearchParams({...}).toString(): name=value pairs joined by `&`.
RECURSIVE URLSearchParamsToString(_)
URLSearchParamsToString(pairs) ==
  IF pairs = <<>> THEN <<>>
  ELSE urlencode(<<pairs[1][1]>>) \o <<"=">> \o urlencode(pairs[1][2])
         \o (IF Len(pairs) > 1
               THEN <<"&">> \o URLSearchParamsToString(Tail(pairs))
               ELSE <<>>)

\* The pieces of a token sequence between the occurrences of sep.
RECURSIVE SplitOn(_, _)
SplitOn(cs, sep) ==
  IF cs = <<>> THEN << <<>> >>
  ELSE LET rest == SplitOn(Tail(cs), sep)
       IN IF cs[1] = sep THEN << <<>> >> \o rest
                         ELSE << <<cs[1]>> \o rest[1] >> \o Tail(rest)

\* One piece of a query string as a parameter: it is cut at its first `=`.
ParsePair(seg) ==
  LET eqs == {i \in 1..Len(seg) : seg[i] = "="}
      k == IF eqs = {} THEN Len(seg) + 1
                       ELSE CHOOSE i \in eqs : \A j \in eqs : i <= j
  IN [name |-> Str(urldecode(SubSeq(seg, 1, k - 1))),
      value |-> Str(urldecode(SubSeq(seg, k + 1, Len(seg))))]

\* new URL(request.url).searchParams: the parameters of the non-empty
\* pieces, in order.
searchParams(query) ==
  LET segs == SelectSeq(SplitOn(query, "&"), LAMBDA seg : seg # <<>>)
  IN [i \in 1..Len(segs) |-> ParsePair(segs[i])]

\* searchParams.get(name): the first parameter of that name, or null.
searchParamsGet(query, name) ==
  LET ps == searchParams(query)
      I == {i \in 1..Len(ps) : ps[i].name = name}
  IN IF I = {} THEN None
               ELSE Some(ps[CHOOSE i \in I : \A j \in I : i <= j].value)

\* The four parameters GET reads off the URL of a request.
parseRequest(query) ==
  [sandboxId |-> searchParamsGet(query, "sandboxId"),
   sessionId |-> searchParamsGet(query, "sessionId"),
   commandId |-> searchParamsGet(query, "commandId"),
   eventType |-> searchParamsGet(query, "eventType")]

\* The query string getSSEConnectionUrl builds: sessionId and commandId are
\* spread in only when truthy; eventType has the parameter default.
sseConnectionQuery(sb, se, co, et) ==
  LET ty == IF et = None THEN "sandbox-status" ELSE et[1]
  IN URLSearchParamsToString(
       << <<"sandboxId", sb>> >>
         \o (IF TruthyId(se) THEN << <<"sessionId", se[1]>> >> ELSE <<>>)
         \o (IF TruthyId(co) THEN << <<"commandId", co[1]>> >> ELSE <<>>)
         \o << <<"eventType", <<ty>> >> >>)

\* The query string getSessionCommandLogs writes with a template literal:
\* the ids are interpolated as they are.
logsSseQuery(sb, se, co) ==
  <<"sandboxId", "=">> \o sb \o <<"&", "sessionId", "=">> \o se
    \o <<"&", "commandId", "=">> \o co \o <<"&", "eventType", "=", "logs">>

\* The two monitoring URLs getSandbox and executeCommand add for useSSE.
monitoringQueries(sb) ==
  [sandboxStatus |->
     <<"sandboxId", "=">> \o sb \o <<"&", "eventType", "=", "sandbox-status">>,
   sessions |->
     <<"sandboxId", "=">> \o sb \o <<"&", "eventType", "=", "sessions">>]

\* formatResponse: one text content, `## <title>`, a blank line, then the
\* data (a string as it is, anything else as JSON; kept structured here).
formatResponse(title, data) ==
  [type |-> "text", heading |-> "## " \o title, body |-> data]

\* The bodies an upstream error response may carry.
ResponseData ==
  {[kind |-> "undefined", message |-> None, text |-> ""],
   [kind |-> "null", message |-> None, text |-> ""],
   [kind |-> "string", message |-> None, text |-> "Bad Gateway"],
   [kind |-> "object", message |-> None, text |-> ""],
   [kind |-> "object", message |-> Some(""), text |-> ""],
   [kind |-> "object", message |-> Some("Sandbox not found"), text |-> ""]}

\* The failures of an upstream call: answered with an error status (the
\* request object is there too, or not), sent but unanswered, or not sent.
ApiErrors ==
  {[response |-> Some([status |-> 404, data |-> d]), request |-> rq,
    message |-> "Request failed with status code 404"] :
     d \in ResponseData, rq \in BOOLEAN}
  \cup {[response |-> None, request |-> rq, message |-> "Network Error"] :
          rq \in BOOLEAN}

\* JSON.stringify of a response body, as the template literal prints it.
stringify(d) ==
  CASE d.kind = "undefined" -> "undefined"
    [] d.kind = "null" -> "null"
    [] d.kind = "string" -> "\"" \o d.text \o "\""
    [] d.kind = "object" ->
         IF d.message = None THEN "{}"
                             ELSE "{\"message\":\"" \o d.message[1] \o "\"}"

\* `data?.message || JSON.stringify(data)`
bodyDetail(d) ==
  IF d.kind = "object" /\ Truthy(d.message) THEN d.message[1]
                                            ELSE stringify(d)

\* handleApiError testing error.request ahead of error.response.
handleApiErrorRequestFirst(error, defaultMessage) ==
  LET errorMessage ==
        IF error.request
          THEN defaultMessage \o ": No response received"
        ELSE IF error.response # None
          THEN defaultMessage \o ": " \o ToString(error.response[1].status)
                 \o " - " \o bodyDetail(error.response[1].data)
        ELSE defaultMessage \o ": " \o error.message
  IN [type |-> "text", heading |-> "## Error", body |-> errorMessage]

\* handleApiError: the message by what the error carries (response first,
\* then request, then the error's own message), as an `## Error` content.
handleApiError(error, defaultMessage) ==
  LET errorMessage ==
        IF error.response # None
          THEN defaultMessage \o ": " \o ToString(error.response[1].status)
                 \o " - " \o bodyDetail(error.response[1].data)
        ELSE IF error.request
          THEN defaultMessage \o ": No response received"
        ELSE defaultMessage \o ": " \o error.message
  IN [type |-> "text", heading |-> "## Error", body |-> errorMessage]

\* The default message of the handler's catch block.
defaultMessage(call) ==
  CASE call.tool = "listApiKeys" ->
         "Failed to list API keys"
    [] call.tool = "createApiKey" ->
         "Failed to create API key"
    [] call.tool = "getApiKey" ->
         "Failed to get API key " \o Str(call.name[1])
    [] call.tool = "deleteApiKey" ->
         "Failed to delete API key " \o Str(call.name[1])
    [] call.tool = "getCurrentApiKey" ->
         "Failed to get current API key"
    [] call.tool = "listOrganizations" ->
         "Failed to list organizations"
    [] call.tool = "createOrganization" ->
         "Failed to create organization"
    [] call.tool = "getOrganization" ->
         "Failed to get organization " \o Str(call.organizationId[1])
    [] call.tool = "deleteOrganization" ->
         "Failed to delete organization " \o Str(call.organizationId[1])
    [] call.tool = "getOrganizationUsage" ->
         "Failed to get usage for organization "
           \o Str(call.organizationId[1])
    [] call.tool = "updateOrganizationQuota" ->
         "Failed to update quota for organization "
           \o Str(call.organizationId[1])
    [] call.tool = "listOrganizationMembers" ->
         "Failed to list members for organization "
           \o Str(call.organizationId[1])
    [] call.tool = "updateMemberRole" ->
         "Failed to update role for member " \o Str(call.userId[1])
    [] call.tool = "deleteOrganizationMember" ->
         "Failed to remove member " \o Str(call.userId[1])
    [] call.tool = "listOrganizationRoles" ->
         "Failed to list roles for organization "
           \o Str(call.organizationId[1])
    [] call.tool = "createOrganizationRole" ->
         "Failed to create role " \o Str(call.name[1])
    [] call.tool = "listSandboxes" ->
         "Failed to list sandboxes"
    [] call.tool = "getSandbox" ->
         "Failed to get sandbox " \o Str(call.sandboxId)
    [] call.tool = "createSandbox" ->
         "Failed to create sandbox"
    [] call.tool = "deleteSandbox" ->
         "Failed to delete sandbox " \o Str(call.sandboxId)
    [] call.tool = "startSandbox" ->
         "Failed to start sandbox " \o Str(call.sandboxId)
    [] call.tool = "stopSandbox" ->
         "Failed to stop sandbox " \o Str(call.sandboxId)
    [] call.tool = "listSnapshots" ->
         "Failed to list snapshots"
    [] call.tool = "getSnapshot" ->
         "Failed to get snapshot " \o Str(call.id[1])
    [] call.tool = "createSnapshot" ->
         "Failed to create snapshot"
    [] call.tool = "deleteSnapshot" ->
         "Failed to delete snapshot " \o Str(call.id[1])
    [] call.tool = "listVolumes" ->
         "Failed to list volumes"
    [] call.tool = "getVolume" ->
         "Failed to get volume " \o Str(call.volumeId[1])
    [] call.tool = "getVolumeByName" ->
         "Failed to get volume " \o Str(call.name[1])
    [] call.tool = "createVolume" ->
         "Failed to create volume"
    [] call.tool = "deleteVolume" ->
         "Failed to delete volume " \o Str(call.volumeId[1])
    [] call.tool = "executeCommand" ->
         "Failed to execute command in sandbox " \o Str(call.sandboxId)
    [] call.tool = "listSessions" ->
         "Failed to list sessions for sandbox " \o Str(call.sandboxId)
    [] call.tool = "createSession" ->
         "Failed to create session in sandbox " \o Str(call.sandboxId)
    [] call.tool = "getSession" ->
         "Failed to get session "
           \o Str(call.sessionId[1])
           \o " in sandbox "
           \o Str(call.sandboxId)
    [] call.tool = "deleteSession" ->
         "Failed to delete session "
           \o Str(call.sessionId[1])
           \o " in sandbox "
           \o Str(call.sandboxId)
    [] call.tool = "executeSessionCommand" ->
         "Failed to execute command in session "
           \o Str(call.sessionId[1])
           \o " in sandbox "
           \o Str(call.sandboxId)
    [] call.tool = "getSessionCommand" ->
         "Failed to get command "
           \o Str(call.commandId[1])
           \o " in session "
           \o Str(call.sessionId[1])
           \o " in sandbox "
           \o Str(call.sandboxId)
    [] call.tool = "getSessionCommandLogs" ->
         "Failed to get logs for command "
           \o Str(call.commandId[1])
           \o " in session "
           \o Str(call.sessionId[1])
           \o " in sandbox "
           \o Str(call.sandboxId)
    [] call.tool = "getSSEConnectionUrl" ->
         "Failed to generate SSE connection URL"

\* What the handler returns once its upstream call has resolved with the
\* body d.
successResponse(call, d) ==
  CASE call.tool = "listApiKeys" ->
         formatResponse("API Keys", d)
    [] call.tool = "createApiKey" ->
         formatResponse("API Key Created", d)
    [] call.tool = "getApiKey" ->
         formatResponse("API Key: " \o Str(call.name[1]), d)
    [] call.tool = "deleteApiKey" ->
         formatResponse(
           "API Key Deleted: " \o Str(call.name[1]),
           "API key deleted successfully")
    [] call.tool = "getCurrentApiKey" ->
         formatResponse("Current API Key", d)
    [] call.tool = "listOrganizations" ->
         formatResponse("Organizations", d)
    [] call.tool = "createOrganization" ->
         formatResponse("Organization Created", d)
    [] call.tool = "getOrganization" ->
         formatResponse("Organization: " \o Str(call.organizationId[1]), d)
    [] call.tool = "deleteOrganization" ->
         formatResponse(
           "Organization Deleted: " \o Str(call.organizationId[1]),
           "Organization deleted successfully")
    [] call.tool = "getOrganizationUsage" ->
         formatResponse(
           "Organization Usage: " \o Str(call.organizationId[1]),
           d)
    [] call.tool = "updateOrganizationQuota" ->
         formatResponse(
           "Organization Quota Updated: " \o Str(call.organizationId[1]),
           d)
    [] call.tool = "listOrganizationMembers" ->
         formatResponse(
           "Organization Members: " \o Str(call.organizationId[1]),
           d)
    [] call.tool = "updateMemberRole" ->
         formatResponse("Member Role Updated: " \o Str(call.userId[1]), d)
    [] call.tool = "deleteOrganizationMember" ->
         formatResponse(
           "Member Removed: " \o Str(call.userId[1]),
           "Member removed successfully")
    [] call.tool = "listOrganizationRoles" ->
         formatResponse(
           "Organization Roles: " \o Str(call.organizationId[1]),
           d)
    [] call.tool = "createOrganizationRole" ->
         formatResponse("Role Created: " \o Str(call.name[1]), d)
    [] call.tool = "listSandboxes" ->
         formatResponse("Sandboxes", d)
    [] call.tool = "getSandbox" ->
         formatResponse(
           "Sandbox: " \o Str(call.sandboxId),
           [data |-> d, sandboxId |-> Str(call.sandboxId),
            sseMonitoring |->
              IF TruthyFlag(call.useSSE)
                THEN Some(monitoringQueries(call.sandboxId)) ELSE None])
    [] call.tool = "createSandbox" ->
         formatResponse("Sandbox Created", d)
    [] call.tool = "deleteSandbox" ->
         formatResponse(
           "Sandbox " \o Str(call.sandboxId) \o " Deleted",
           IF d = EmptyBody THEN "Sandbox has been deleted" ELSE d)
    [] call.tool = "startSandbox" ->
         formatResponse(
           "Sandbox " \o Str(call.sandboxId) \o " Started",
           IF d = EmptyBody THEN "Sandbox has been started" ELSE d)
    [] call.tool = "stopSandbox" ->
         formatResponse(
           "Sandbox " \o Str(call.sandboxId) \o " Stopped",
           IF d = EmptyBody THEN "Sandbox has been stopped" ELSE d)
    [] call.tool = "listSnapshots" ->
         formatResponse("Snapshots", d)
    [] call.tool = "getSnapshot" ->
         formatResponse("Snapshot: " \o Str(call.id[1]), d)
    [] call.tool = "createSnapshot" ->
         formatResponse("Snapshot Created", d)
    [] call.tool = "deleteSnapshot" ->
         formatResponse(
           "Snapshot " \o Str(call.id[1]) \o " Deleted",
           IF d = EmptyBody THEN "Snapshot has been deleted" ELSE d)
    [] call.tool = "listVolumes" ->
         formatResponse("Volumes", d)
    [] call.tool = "getVolume" ->
         formatResponse("Volume: " \o Str(call.volumeId[1]), d)
    [] call.tool = "getVolumeByName" ->
         formatResponse("Volume: " \o Str(call.name[1]), d)
    [] call.tool = "createVolume" ->
         formatResponse("Volume Created", d)
    [] call.tool = "deleteVolume" ->
         formatResponse(
           "Volume " \o Str(call.volumeId[1]) \o " Deleted",
           IF d = EmptyBody THEN "Volume has been marked for deletion" ELSE d)
    [] call.tool = "executeCommand" ->
         formatResponse(
           "Command Executed in Sandbox " \o Str(call.sandboxId),
           [data |-> d, sandboxId |-> Str(call.sandboxId),
            sseMonitoring |->
              IF TruthyFlag(call.useSSE)
                THEN Some(monitoringQueries(call.sandboxId)) ELSE None])
    [] call.tool = "listSessions" ->
         formatResponse(
           "Sessions in Sandbox " \o Str(call.sandboxId),
           [data |-> d, sandboxId |-> Str(call.sandboxId),
            sseMonitoring |->
              IF TruthyFlag(call.useSSE)
                THEN Some(monitoringQueries(call.sandboxId)) ELSE None])
    [] call.tool = "createSession" ->
         formatResponse(
           "Session Created in Sandbox " \o Str(call.sandboxId),
           IF d = EmptyBody
             THEN "Session " \o Str(call.sessionId[1])
                    \o " created successfully"
             ELSE d)
    [] call.tool = "getSession" ->
         formatResponse(
           "Session "
             \o Str(call.sessionId[1])
             \o " in Sandbox "
             \o Str(call.sandboxId),
           d)
    [] call.tool = "deleteSession" ->
         formatResponse(
           "Session "
             \o Str(call.sessionId[1])
             \o " Deleted from Sandbox "
             \o Str(call.sandboxId),
           IF d = EmptyBody THEN "Session deleted successfully" ELSE d)
    [] call.tool = "executeSessionCommand" ->
         formatResponse(
           "Command Executed in Session " \o Str(call.sessionId[1]),
           [data |-> d, sessionId |-> Str(call.sessionId[1]),
            sandboxId |-> Str(call.sandboxId),
            sseMonitoring |->
              IF TruthyFlag(call.useSSE)
                THEN Some(monitoringQueries(call.sandboxId)) ELSE None])
    [] call.tool = "getSessionCommand" ->
         formatResponse(
           "Command "
             \o Str(call.commandId[1])
             \o " in Session "
             \o Str(call.sessionId[1]),
           d)
    [] call.tool = "getSessionCommandLogs" ->
         formatResponse(
           "Logs for Command "
             \o Str(call.commandId[1])
             \o " in Session "
             \o Str(call.sessionId[1]),
           [data |-> d, sseUrl |-> None,
            sseNote |-> "Set useSSE=true for real-time streaming"])

\* What a tool call leaves alone: the SSE route's channels.
channelVars ==
  <<phase, request, events, closed, listener, cleanupFunction, interval,
    fetch, dropped, hes, logStream, chunks, uncaught, teardowns, teardownLog,
    now, nextTick, issuedAt, emitTimes, controllerRef, intervalRef, created,
    self, parked>>

\* A handler up to its `await daytonaClient...`: it has opened its one
\* upstream call.  The arguments that only shape the upstream request
\* (headers, params, the request body) are the upstream's business; those
\* that reach the handler's texts are kept in the call.
awaitUpstream(call) ==
  /\ toolPhase = "idle"
  /\ toolCall' = call
  /\ toolPhase' = "awaiting"
  /\ toolUpstream' = toolUpstream + 1
  /\ UNCHANGED <<toolOutcome, toolResult, channelVars>>

\* getSandbox and executeCommand up to their await: one upstream call.
getSandbox ==
  \E sb \in Ids, sse \in UseSSEArgs :
    /\ toolPhase = "idle"
    /\ toolCall' = [NoCall EXCEPT !.tool = "getSandbox", !.sandboxId = sb,
                                   !.useSSE = sse]
    /\ toolPhase' = "awaiting"
    /\ toolUpstream' = toolUpstream + 1
    /\ UNCHANGED <<toolOutcome, toolResult, channelVars>>

executeCommand ==
  \E sb \in Ids, sse \in UseSSEArgs :
    /\ toolPhase = "idle"
    /\ toolCall' = [NoCall EXCEPT !.tool = "executeCommand", !.sandboxId = sb,
                                   !.useSSE = sse]
    /\ toolPhase' = "awaiting"
    /\ toolUpstream' = toolUpstream + 1
    /\ UNCHANGED <<toolOutcome, toolResult, channelVars>>

\* getSessionCommandLogs: with useSSE it returns the SSE URL at once;
\* otherwise it opens the upstream logs request and awaits it.
getSessionCommandLogs ==
  \E sb \in Ids, se \in Ids, co \in Ids, sse \in UseSSEArgs :
    /\ toolPhase = "idle"
    /\ toolCall' = [NoCall EXCEPT !.tool = "getSessionCommandLogs",
                                   !.sandboxId = sb, !.sessionId = Some(se),
                                   !.commandId = Some(co), !.useSSE = sse]
    /\ IF TruthyFlag(sse)
         THEN /\ toolPhase' = "returned"
              /\ toolResult' =
                   formatResponse("Real-time Logs for Command " \o Str(co),
                     [data |-> "Use SSE for real-time log streaming",
                      sseUrl |-> Some(logsSseQuery(sb, se, co)),
                      sseNote |-> ""])
              /\ UNCHANGED toolUpstream
         ELSE /\ toolPhase' = "awaiting"
              /\ toolUpstream' = toolUpstream + 1
              /\ UNCHANGED toolResult
    /\ UNCHANGED <<toolOutcome, channelVars>>

\* getSSEConnectionUrl: it builds the URL and returns; it awaits nothing.
getSSEConnectionUrl ==
  \E sb \in Ids, se \in OptIds, co \in OptIds, et \in EventTypeArgs :
    /\ toolPhase = "idle"
    /\ toolCall' = [NoCall EXCEPT !.tool = "getSSEConnectionUrl",
                                   !.sandboxId = sb, !.sessionId = se,
                                   !.commandId = co, !.eventType = et]
    /\ toolPhase' = "returned"
    /\ toolResult' =
         formatResponse("SSE Connection URL",
           [url |-> sseConnectionQuery(sb, se, co, et),
            sandboxId |-> Str(sb),
            eventType |-> IF et = None THEN "sandbox-status" ELSE et[1]])
    /\ UNCHANGED <<toolUpstream, toolOutcome, channelVars>>

\* The other handlers, each up to its await.
\* listApiKeys: GET /api-keys
listApiKeys ==
  awaitUpstream([NoCall EXCEPT !.tool = "listApiKeys"])

\* createApiKey: POST /api-keys
createApiKey ==
  awaitUpstream([NoCall EXCEPT !.tool = "createApiKey"])

\* getApiKey: GET /api-keys/<name>
getApiKey ==
  \E nm \in Ids :
    awaitUpstream([NoCall EXCEPT !.tool = "getApiKey", !.name = Some(nm)])

\* deleteApiKey: DELETE /api-keys/<name>
deleteApiKey ==
  \E nm \in Ids :
    awaitUpstream([NoCall EXCEPT !.tool = "deleteApiKey", !.name = Some(nm)])

\* getCurrentApiKey: GET /api-keys/current
getCurrentApiKey ==
  awaitUpstream([NoCall EXCEPT !.tool = "getCurrentApiKey"])

\* listOrganizations: GET /organizations
listOrganizations ==
  awaitUpstream([NoCall EXCEPT !.tool = "listOrganizations"])

\* createOrganization: POST /organizations
createOrganization ==
  awaitUpstream([NoCall EXCEPT !.tool = "createOrganization"])

\* getOrganization: GET /organizations/<organizationId>
getOrganization ==
  \E org \in Ids :
    awaitUpstream([NoCall EXCEPT !.tool = "getOrganization",
                     !.organizationId = Some(org)])

\* deleteOrganization: DELETE /organizations/<organizationId>
deleteOrganization ==
  \E org \in Ids :
    awaitUpstream([NoCall EXCEPT !.tool = "deleteOrganization",
                     !.organizationId = Some(org)])

\* getOrganizationUsage: GET /organizations/<organizationId>/usage
getOrganizationUsage ==
  \E org \in Ids :
    awaitUpstream([NoCall EXCEPT !.tool = "getOrganizationUsage",
                     !.organizationId = Some(org)])

\* updateOrganizationQuota: PATCH /organizations/<organizationId>/quota
updateOrganizationQuota ==
  \E org \in Ids :
    awaitUpstream([NoCall EXCEPT !.tool = "updateOrganizationQuota",
                     !.organizationId = Some(org)])

\* listOrganizationMembers: GET /organizations/<organizationId>/users
listOrganizationMembers ==
  \E org \in Ids :
    awaitUpstream([NoCall EXCEPT !.tool = "listOrganizationMembers",
                     !.organizationId = Some(org)])

\* updateMemberRole: POST /organizations/<organizationId>/users/<userId>/role
updateMemberRole ==
  \E usr \in Ids :
    awaitUpstream([NoCall EXCEPT !.tool = "updateMemberRole", !.userId = Some(usr)])

\* deleteOrganizationMember: DELETE /organizations/<organizationId>/users/
\*   <userId>
deleteOrganizationMember ==
  \E usr \in Ids :
    awaitUpstream([NoCall EXCEPT !.tool = "deleteOrganizationMember",
                     !.userId = Some(usr)])

\* listOrganizationRoles: GET /organizations/<organizationId>/roles
listOrganizationRoles ==
  \E org \in Ids :
    awaitUpstream([NoCall EXCEPT !.tool = "listOrganizationRoles",
                     !.organizationId = Some(org)])

\* createOrganizationRole: POST /organizations/<organizationId>/roles
createOrganizationRole ==
  \E nm \in Ids :
    awaitUpstream([NoCall EXCEPT !.tool = "createOrganizationRole", !.name = Some(nm)])

\* listSandboxes: GET /sandbox
listSandboxes ==
  awaitUpstream([NoCall EXCEPT !.tool = "listSandboxes"])

\* createSandbox: POST /sandbox
createSandbox ==
  awaitUpstream([NoCall EXCEPT !.tool = "createSandbox"])

\* deleteSandbox: DELETE /sandbox/<sandboxId>
deleteSandbox ==
  \E sb \in Ids :
    awaitUpstream([NoCall EXCEPT !.tool = "deleteSandbox", !.sandboxId = sb])

\* startSandbox: POST /sandbox/<sandboxId>/start
startSandbox ==
  \E sb \in Ids :
    awaitUpstream([NoCall EXCEPT !.tool = "startSandbox", !.sandboxId = sb])

\* stopSandbox: POST /sandbox/<sandboxId>/stop
stopSandbox ==
  \E sb \in Ids :
    awaitUpstream([NoCall EXCEPT !.tool = "stopSandbox", !.sandboxId = sb])

\* listSnapshots: GET /snapshots
listSnapshots ==
  awaitUpstream([NoCall EXCEPT !.tool = "listSnapshots"])

\* getSnapshot: GET /snapshots/<id>
getSnapshot ==
  \E i \in Ids :
    awaitUpstream([NoCall EXCEPT !.tool = "getSnapshot", !.id = Some(i)])

\* createSnapshot: POST /snapshots
createSnapshot ==
  awaitUpstream([NoCall EXCEPT !.tool = "createSnapshot"])

\* deleteSnapshot: DELETE /snapshots/<id>
deleteSnapshot ==
  \E i \in Ids :
    awaitUpstream([NoCall EXCEPT !.tool = "deleteSnapshot", !.id = Some(i)])

\* listVolumes: GET /volumes
listVolumes ==
  awaitUpstream([NoCall EXCEPT !.tool = "listVolumes"])

\* getVolume: GET /volumes/<volumeId>
getVolume ==
  \E vol \in Ids :
    awaitUpstream([NoCall EXCEPT !.tool = "getVolume", !.volumeId = Some(vol)])

\* getVolumeByName: GET /volumes/by-name/<name>
getVolumeByName ==
  \E nm \in Ids :
    awaitUpstream([NoCall EXCEPT !.tool = "getVolumeByName", !.name = Some(nm)])

\* createVolume: POST /volumes
createVolume ==
  awaitUpstream([NoCall EXCEPT !.tool = "createVolume"])

\* deleteVolume: DELETE /volumes/<volumeId>
deleteVolume ==
  \E vol \in Ids :
    awaitUpstream([NoCall EXCEPT !.tool = "deleteVolume", !.volumeId = Some(vol)])

\* listSessions: GET /toolbox/<sandboxId>/toolbox/process/session
listSessions ==
  \E sb \in Ids, sse \in UseSSEArgs :
    awaitUpstream([NoCall EXCEPT !.tool = "listSessions",
                     !.sandboxId = sb,
                     !.useSSE = sse])

\* createSession: POST /toolbox/<sandboxId>/toolbox/process/session
createSession ==
  \E sb \in Ids, se \in Ids :
    awaitUpstream([NoCall EXCEPT !.tool = "createSession",
                     !.sandboxId = sb,
                     !.sessionId = Some(se)])

\* getSession: GET /toolbox/<sandboxId>/toolbox/process/session/<sessionId>
getSession ==
  \E sb \in Ids, se \in Ids :
    awaitUpstream([NoCall EXCEPT !.tool = "getSession",
                     !.sandboxId = sb,
                     !.sessionId = Some(se)])

\* deleteSession: DELETE /toolbox/<sandboxId>/toolbox/process/session/
\*   <sessionId>
deleteSession ==
  \E sb \in Ids, se \in Ids :
    awaitUpstream([NoCall EXCEPT !.tool = "deleteSession",
                     !.sandboxId = sb,
                     !.sessionId = Some(se)])

\* executeSessionCommand: POST /toolbox/<sandboxId>/toolbox/process/session/
\*   <sessionId>/exec
executeSessionCommand ==
  \E sb \in Ids, se \in Ids, sse \in UseSSEArgs :
    awaitUpstream([NoCall EXCEPT !.tool = "executeSessionCommand",
                     !.sandboxId = sb,
                     !.sessionId = Some(se),
                     !.useSSE = sse])

\* getSessionCommand: GET /toolbox/<sandboxId>/toolbox/process/session/
\*   <sessionId>/command/<commandId>
getSessionCommand ==
  \E sb \in Ids, se \in Ids, co \in Ids :
    awaitUpstream([NoCall EXCEPT !.tool = "getSessionCommand",
                     !.sandboxId = sb,
                     !.sessionId = Some(se),
                     !.commandId = Some(co)])

\* The awaited upstream call resolves: the handler formats and returns.
UpstreamResolves ==
  \E d \in ResponseBodies :
    /\ toolPhase = "awaiting"
    /\ toolOutcome' = [kind |-> "ok", error |-> NoError, data |-> d]
    /\ toolPhase' = "returned"
    /\ toolResult' = successResponse(toolCall, d)
    /\ UNCHANGED <<toolCall, toolUpstream, channelVars>>

\* A handler without its try/catch: the rejection is the caller's.
UpstreamRejectsNoCatch ==
  \E e \in ApiErrors :
    /\ toolPhase = "awaiting"
    /\ toolOutcome' = [kind |-> "error", error |-> e, data |-> EmptyBody]
    /\ toolPhase' = "threw"
    /\ UNCHANGED <<toolCall, toolUpstream, toolResult, channelVars>>

\* The awaited upstream call rejects: the handler's catch returns what
\* handleApiError makes of the error.
UpstreamRejects ==
  \E e \in ApiErrors :
    /\ toolPhase = "awaiting"
    /\ toolOutcome' = [kind |-> "error", error |-> e, data |-> EmptyBody]
    /\ toolPhase' = "returned"
    /\ toolResult' = handleApiError(e, defaultMessage(toolCall))
    /\ UNCHANGED <<toolCall, toolUpstream, channelVars>>

NextTools ==
  \/ listApiKeys
  \/ createApiKey
  \/ getApiKey
  \/ deleteApiKey
  \/ getCurrentApiKey
  \/ listOrganizations
  \/ createOrganization
  \/ getOrganization
  \/ deleteOrganization
  \/ getOrganizationUsage
  \/ updateOrganizationQuota
  \/ listOrganizationMembers
  \/ updateMemberRole
  \/ deleteOrganizationMember
  \/ listOrganizationRoles
  \/ createOrganizationRole
  \/ listSandboxes
  \/ getSandbox
  \/ createSandbox
  \/ deleteSandbox
  \/ startSandbox
  \/ stopSandbox
  \/ listSnapshots
  \/ getSnapshot
  \/ createSnapshot
  \/ deleteSnapshot
  \/ listVolumes
  \/ getVolume
  \/ getVolumeByName
  \/ createVolume
  \/ deleteVolume
  \/ executeCommand
  \/ listSessions
  \/ createSession
  \/ getSession
  \/ deleteSession
  \/ executeSessionCommand
  \/ getSessionCommand
  \/ getSessionCommandLogs
  \/ getSSEConnectionUrl
  \/ UpstreamResolves
  \/ UpstreamRejects

SpecTools == Init /\ [][NextTools]_vars

\* ------------------------------------------------------------------ claims
Last(evs) == evs[Len(evs)]

\* The request carries both ids the logs case needs.
BothIdsGiven ==
  /\ request.sessionId \notin {None, Some("")}
  /\ request.commandId \notin {None, Some("")}

\* C1: for every request that carries a sandboxId, `connected` is written
\* exactly once and it is the first event of the channel, whatever the
\* eventType and whatever the upstream does.
C1_ConnectedFirstOnce ==
  (phase # "idle" /\ request.sandboxId \notin {None, Some("")}) =>
    /\ Len(events) >= 1
    /\ events[1].name = "connected"
    /\ CountName(events, "connected") = 1

\* C1 witness: a channel that carries `connected` and two later events.
C1_Witness ==
  /\ phase = "streaming"
  /\ Len(events) >= 3
  /\ events[1].name = "connected"
  /\ events[2].name # "connected"

\* C2: at most one `disconnected` event is written, and it is the last event
\* of the channel in every later state, whatever fetches, ticks and stream
\* callbacks come after the abort.
C2_DisconnectedLastOnce ==
  /\ CountName(events, "disconnected") <= 1
  /\ \A i \in 1..Len(events) :
       events[i].name = "disconnected" => i = Len(events)

\* C2 witness: `disconnected` was written and an upstream callback or a
\* fetch completion ran against the channel afterwards.
C2_Witness ==
  /\ CountName(events, "disconnected") = 1
  /\ uncaught # {}

\* C3: for a poll subscription, once the abort listener has run no timer is
\* active and no upstream fetch can be started any more, at whatever moment
\* the abort fires.
C3_NoTimerNoFetchAfterAbort ==
  (IsPoll(eventType) /\ teardowns > 0) =>
    /\ interval # "active"
    /\ ~ENABLED Tick

\* C4: for a log-stream subscription the upstream stream is released by the
\* teardown: on a closed channel the upstream stream is not open and none of
\* its callbacks has run against the channel.
C4_LogStreamReleasedOnTeardown ==
  closed =>
    /\ logStream # "open"
    /\ uncaught \cap {"data", "end", "error"} = {}

\* C5: a poll driver has at most one upstream fetch in flight.
C5_AtMostOneInFlight == Cardinality(InFlight) <= 1

\* C6: the abort listener invokes the recorded cleanup (if one is recorded
\* when it runs), then writes `disconnected`, then closes the channel:
\* `disconnected` is the channel's last event when it is closed, and neither
\* the cleanup nor the event comes after the close.
C6_TeardownOrder ==
  /\ [](teardowns > 0 =>
          /\ closed
          /\ Last(events).name = "disconnected"
          /\ teardownLog \in {<<"cleanup", "disconnected", "close">>,
                              <<"disconnected", "close">>})
  /\ [][teardowns' > teardowns =>
          /\ teardownLog' =
               (IF cleanupFunction THEN <<"cleanup">> ELSE <<>>)
                 \o <<"disconnected", "close">>
          /\ cleanupFunction => interval' = "cleared"]_vars

\* C6 witness: a teardown that had a cleanup to invoke.
C6_Witness ==
  /\ teardownLog = <<"cleanup", "disconnected", "close">>
  /\ interval = "cleared"
  /\ closed

\* C7: invoking the teardown twice writes no second `disconnected` event and
\* raises no error on the second invocation.
C7_TeardownTwiceIdempotent ==
  teardowns >= 2 =>
    /\ CountName(events, "disconnected") <= 1
    /\ "abort" \notin uncaught

\* C8: emitting on a closed channel writes nothing and raises no error: no
\* fetch completion and no stream callback after the disconnect raises.
C8_EmitOnClosedNoError == uncaught = {}

\* C9: on an open channel a failed poll fetch writes exactly one `error`
\* event and leaves the periodic schedule running: after a failed initial
\* fetch the poll returns normally, so that the driver starts the timer and
\* handleEventStream records the cleanup; after a failed tick the timer stays
\* active; `error` events and emitted failures match one to one.
C9_FailureKeepsPolling ==
  /\ [](IsPoll(eventType) =>
          /\ CountName(events, "error") =
               Cardinality({f \in FetchIds : fetch[f] = "fail"} \ dropped)
          /\ (fetch[1] = "fail" /\ 1 \notin dropped) =>
               hes \in {"pollResolved", "driverResolved", "done"}
          /\ hes = "driverResolved" => interval = "active"
          /\ hes = "done" =>
               (cleanupFunction /\ interval \in {"active", "cleared"}))
  /\ [][\A f \in FetchIds :
          (fetch[f] = "inflight" /\ fetch'[f] = "fail" /\ ~closed) =>
            /\ Len(events') = Len(events) + 1
            /\ Last(events').name = "error"
            /\ f = 1 => hes' = "pollResolved"
            /\ f # 1 => interval' = "active"]_vars

\* C9 witness: the initial fetch and a periodic tick both failed on an open
\* channel, and the timer is still active.
C9_Witness ==
  /\ fetch[1] = "fail"
  /\ \E f \in FetchIds \ {1} : fetch[f] = "fail"
  /\ ~closed
  /\ interval = "active"
  /\ cleanupFunction
  /\ CountName(events, "error") = 2

\* C10: eventType=logs without both ids: `connected`, then exactly one
\* `error`, no log event, no upstream call, and the channel is closed only
\* by the client's disconnect.
C10_LogsMissingIds ==
  (phase = "streaming" /\ eventType = "logs" /\ ~BothIdsGiven) =>
    /\ Len(events) >= 2
    /\ events[1].name = "connected"
    /\ events[2] = IdsRequiredEvent
    /\ CountName(events, "error") = 1
    /\ \A i \in 1..Len(events) :
         events[i].name \notin {"log", "log-complete", "log-error"}
    /\ UpstreamCalls = 0
    /\ closed => teardowns > 0
    /\ Len(events) = 2 \/ (Len(events) = 3 /\ events[3] = DisconnectedEvent)

\* C10 witness: a logs request with one id missing, after the disconnect.
C10_Witness ==
  /\ phase = "streaming"
  /\ eventType = "logs"
  /\ request.sessionId = Some("sess-1")
  /\ request.commandId = None
  /\ Names(events) = <<"connected", "error", "disconnected">>

\* C11: a request without a sandboxId (absent or empty) is answered 400:
\* no channel, no event, no driver, no upstream call, no abort listener.
C11_MissingSandboxIdRejected ==
  (phase # "idle" /\ request.sandboxId \in {None, Some("")}) =>
    /\ phase = "rejected400"
    /\ events = <<>>
    /\ ~listener
    /\ hes = "idle"
    /\ UpstreamCalls = 0
    /\ interval = "none"
    /\ ~cleanupFunction
    /\ ~closed
    /\ teardowns = 0

\* C11 witness: a request with an empty sandboxId and a valid eventType has
\* been answered.
C11_Witness ==
  /\ phase = "rejected400"
  /\ request.sandboxId = Some("")
  /\ request.eventType = Some("sandbox-status")

\* C12: the channel is closed only by the abort listener, and no fetch
\* failure, establishment failure, stream end or error, validation error or
\* unknown eventType raises an error out of handleEventStream or out of a
\* timer or stream callback.
C12_OnlyAbortClosesNothingEscapes ==
  /\ closed => teardowns > 0
  /\ uncaught \cap {"handleEventStream", "poll", "data", "end", "error"} = {}

\* The part of C12 the code keeps: closed only by the abort listener, and
\* nothing escapes while the channel is open.
C12_OpenChannelPart ==
  /\ closed => teardowns > 0
  /\ ~closed => uncaught = {}

\* C13: a log stream that delivers n chunks and ends, with no disconnect:
\* `connected`, the n chunks as `log` events in delivery order, then one
\* `log-complete`, and no `log-error`.
C13_LogChunksThenComplete ==
  LET logs == [i \in 1..chunks |-> Ev("log", "", i)]
  IN (eventType = "logs" /\ teardowns = 0) =>
       /\ logStream = "open" => events = <<ConnectedEvent("logs")>> \o logs
       /\ logStream = "ended" =>
            events = <<ConnectedEvent("logs")>> \o logs
                       \o <<Ev("log-complete", "Log stream ended", 0)>>

\* C13 witness: the stream has delivered two chunks and ended.
C13_Witness ==
  /\ logStream = "ended"
  /\ chunks = 2
  /\ teardowns = 0
  /\ Names(events) = <<"connected", "log", "log", "log-complete">>

\* C14: when the upstream log call fails before the stream exists, the
\* driver writes one generic `error` (none if the channel was closed by
\* then), never `log`, `log-complete` or `log-error`, and makes no second
\* upstream call.  The event is written by the catch of streamCommandLogs,
\* before handleEventStream resumes, and nothing is added when it does.
C14_EstablishFailure ==
  /\ [](logStream = "failed" =>
          /\ UpstreamCalls = 1
          /\ \A i \in 1..Len(events) :
               events[i].name \notin {"log", "log-complete", "log-error"}
          /\ CountName(events, "error") =
               (IF hes \in {"logsResolved", "done"} THEN 1 ELSE 0)
          /\ hes \in {"logsResolved", "done"} => events[2] = LogsFailedEvent
          /\ hes \in {"logsRejected", "rejected"} => closed)
  /\ [][(logStream = "connecting" /\ logStream' = "failed") =>
          /\ events' = IF closed THEN events
                                 ELSE Append(events, LogsFailedEvent)
          /\ hes' = IF closed THEN "logsRejected" ELSE "logsResolved"]_vars
  /\ [][(hes = "logsResolved" /\ hes' # hes) =>
          (hes' = "done" /\ events' = events /\ logStream' = logStream)]_vars

\* C14 witness: the call failed on an open channel.
C14_Witness ==
  /\ logStream = "failed"
  /\ hes = "done"
  /\ Names(events) = <<"connected", "error">>

\* C15: an eventType that is none of logs, sandbox-status, sessions gives one
\* `error` event naming it; no driver, no upstream call, no cleanup
\* recorded, and the channel is closed only by the client's disconnect.
C15_UnknownEventType ==
  (/\ phase = "streaming"
   /\ request.eventType \notin
        {None, Some(""), Some("logs"), Some("sandbox-status"),
         Some("sessions")}) =>
    /\ Len(events) \in {2, 3}
    /\ events[2] =
         Ev("error", "Unknown event type: " \o request.eventType[1], 0)
    /\ CountName(events, "error") = 1
    /\ Len(events) = 3 => events[3] = DisconnectedEvent
    /\ UpstreamCalls = 0
    /\ logStream = "none"
    /\ interval = "none"
    /\ ~cleanupFunction
    /\ closed => teardowns > 0

\* C15 witness: an unknown eventType, after the client's disconnect.
C15_Witness ==
  /\ request.eventType = Some("bogus")
  /\ Names(events) = <<"connected", "error", "disconnected">>
  /\ events[2].msg = "Unknown event type: bogus"

\* C17: after an upstream connection error the endpoint retries the failed
\* connection (with growing delays): from the state in which the log call
\* has failed on an open channel, a further upstream call can follow.
C17_RetryAfterConnectionError ==
  (logStream = "failed" /\ ~closed) =>
    ENABLED (Next /\ UpstreamCalls' > UpstreamCalls)

\* A valid eventType has been dispatched and its driver has started.
DriverStarted ==
  /\ phase = "streaming"
  /\ \/ IsPoll(eventType)
     \/ logStream \in {"open", "ended", "errored"}

\* C18 as stated: an open channel never has more than one driver alive, and
\* has exactly one from the driver's start until teardown.
C18_ExactlyOneDriver ==
  ~closed =>
    /\ DriversAlive <= 1
    /\ DriverStarted => DriversAlive = 1

\* C18 amended: never more than one driver alive; a poll subscription has
\* exactly one from its dispatch until teardown; a log-stream subscription
\* has one until its upstream stream ends, errors or fails to establish, and
\* none afterwards.
C18_AtMostOneDriver ==
  /\ DriversAlive <= 1
  /\ (phase = "streaming" /\ teardowns = 0 /\ IsPoll(eventType)) =>
       (DriversAlive = 1 /\ PollDriverAlive)
  /\ (phase = "streaming" /\ eventType = "logs" /\ BothIdsGiven) =>
       (LogDriverAlive <=> logStream \notin {"ended", "errored", "failed"})
  /\ PollDriverAlive => IsPoll(eventType)
  /\ LogDriverAlive => eventType = "logs"

\* C18 witness: a log-stream driver that ended by itself on an open channel.
C18_Witness ==
  /\ ~closed
  /\ logStream = "ended"
  /\ DriversAlive = 0
  /\ chunks >= 1

\* C19: an absent or empty eventType behaves like sandbox-status: the same
\* start, `connected` echoes sandbox-status, the status-poll driver is the
\* one running, and its events are `sandbox-status` for the request's
\* sandboxId or the status driver's `error`.
C19_DefaultEventType ==
  (phase = "streaming" /\ request.eventType \in {None, Some("")}) =>
    /\ start(request) = start([request EXCEPT !.eventType = Some("sandbox-status")])
    /\ events[1] = ConnectedEvent("sandbox-status")
    /\ fetch[1] # "none"
    /\ logStream = "none"
    /\ \A i \in 2..Len(events) :
         \/ events[i] = StatusFailedEvent
         \/ events[i] = DisconnectedEvent
         \/ /\ events[i].name = "sandbox-status"
            /\ events[i].msg = request.sandboxId[1]
    /\ (Len(events) >= 2 /\ events[2].name = "sandbox-status") =>
         events[2].seq = 1

\* C19 witness: an empty eventType, and the first status event for sbx-2.
C19_Witness ==
  /\ request.eventType = Some("")
  /\ request.sandboxId = Some("sbx-2")
  /\ Len(events) >= 2
  /\ events[2] = Ev("sandbox-status", "sbx-2", 1)

\* C20: poll events are written in the order in which their fetches were
\* issued.
C20_PollEventsInIssueOrder ==
  \A i, j \in 1..Len(events) :
    (/\ i < j
     /\ events[i].name \in {"sandbox-status", "sessions-update"}
     /\ events[j].name \in {"sandbox-status", "sessions-update"}) =>
      events[i].seq < events[j].seq

\* The period the documentation gives for the subscription's kind.
Period ==
  IF eventType = "sandbox-status" THEN StatusPollInterval
                                  ELSE SessionsPollInterval

\* Two events of the poll's own name with none of that name between them.
IsPollEvent(i) == events[i].name \in {"sandbox-status", "sessions-update"}
ConsecutivePollEvents(i, j) ==
  /\ i < j
  /\ IsPollEvent(i)
  /\ IsPollEvent(j)
  /\ \A k \in (i + 1)..(j - 1) : ~IsPollEvent(k)

\* C16 as stated: until cancellation, consecutive same-name events of a poll
\* subscription are one period apart (5 s or 10 s), within a scheduling
\* jitter that is taken here as anything short of a whole period, and the
\* timer stays armed.
C16_SameNameEventsOnePeriodApart ==
  (IsPoll(eventType) /\ teardowns = 0) =>
    /\ \A i, j \in 1..Len(events) :
         ConsecutivePollEvents(i, j) =>
           /\ emitTimes[j] - emitTimes[i] > 0
           /\ emitTimes[j] - emitTimes[i] < Period + Period
    /\ interval = "active" => nextTick >= now

\* When the timer starts the f-th fetch (f > 1): f - 1 periods after the
\* initial fetch settled and wrote the channel's second event.
TickDue(f) == emitTimes[2] + (f - 1) * Period

\* The time the get behind the i-th event took.
Latency(i) == emitTimes[i] - issuedAt[events[i].seq]

\* C16 amended: the periodic fetches start exactly one period apart, the
\* first one a period after the initial fetch settled, whether or not the
\* earlier fetches have settled; each same-name event is written when its
\* own fetch resolves, at or after that fetch's start, so the events of two
\* periodic fetches are as many periods apart as the fetches when their
\* gets took equally long; the timer stays armed and is stopped by nothing
\* but the teardown.
C16_TicksOnePeriodApart ==
  /\ [](IsPoll(eventType) =>
          /\ \A f \in Issued \ {1} : issuedAt[f] = TickDue(f)
          /\ \A i \in 1..Len(events) :
               IsPollEvent(i) =>
                 /\ events[i].seq \in Issued
                 /\ fetch[events[i].seq] = "ok"
                 /\ Latency(i) >= 0
          /\ \A i, j \in 1..Len(events) :
               (/\ IsPollEvent(i) /\ IsPollEvent(j)
                /\ events[i].seq > 1 /\ events[j].seq > 1
                /\ Latency(i) = Latency(j)) =>
                 emitTimes[j] - emitTimes[i] =
                   (events[j].seq - events[i].seq) * Period
          /\ interval = "active" =>
               (nextTick >= now /\ nextTick <= now + Period))
  /\ [][(interval = "active" /\ teardowns' = teardowns) =>
          interval' = "active"]_vars

\* C16 witness: a status subscription whose second periodic get is still
\* pending when the timer starts the third: the fetches start 5 s apart, the
\* third event is written first, 8 s after the initial one, the second 2 s
\* later.
C16_Witness ==
  /\ eventType = "sandbox-status"
  /\ teardowns = 0
  /\ interval = "active"
  /\ Len(events) = 4
  /\ <<events[2].seq, events[3].seq, events[4].seq>> = <<1, 3, 2>>
  /\ issuedAt[3] - issuedAt[2] = Period
  /\ emitTimes[3] - emitTimes[2] = 10
  /\ emitTimes[4] - emitTimes[3] = 2

\* C21: a teardown that finds no cleanup recorded (logs kind, missing ids,
\* unknown eventType, or a poll driver whose initial fetch is still pending)
\* calls no cleanup and raises no error: it writes `disconnected` as the
\* channel's last event and closes the channel, and touches no timer and no
\* fetch.
C21_TeardownWithoutCleanup ==
  [][(teardowns' > teardowns /\ ~cleanupFunction) =>
       /\ teardownLog' = <<"disconnected", "close">>
       /\ uncaught' = uncaught
       /\ closed'
       /\ events' = Append(events, DisconnectedEvent)
       /\ interval' = interval
       /\ fetch' = fetch]_vars

\* C21 witness: the abort came while the initial fetch of a poll driver was
\* in flight, so that no cleanup was recorded yet.
C21_Witness ==
  /\ IsPoll(eventType)
  /\ teardowns = 1
  /\ ~cleanupFunction
  /\ fetch[1] = "inflight"
  /\ closed

\* The events the log-stream driver ends with.
IsLogTerminal(i) == events[i].name \in {"log-complete", "log-error"}

\* C22: `log-complete` and `log-error` are terminal for the log-stream
\* driver: at most one of them is written, once; nothing but the teardown's
\* `disconnected` follows it; and the upstream stream stays ended (after
\* `log-complete`) or errored (after `log-error`): it is not reopened.
C22_LogTerminalEvents ==
  /\ CountName(events, "log-complete") + CountName(events, "log-error") <= 1
  /\ \A i \in 1..Len(events) :
       IsLogTerminal(i) =>
         \A j \in (i + 1)..Len(events) : events[j].name = "disconnected"
  /\ CountName(events, "log-complete") = 1 => logStream = "ended"
  /\ CountName(events, "log-error") = 1 =>
       (logStream = "errored" /\ UpstreamCalls = 1)

\* C22 witness: the stream failed after one chunk (more could have come),
\* and the client disconnected afterwards.
C22_Witness ==
  /\ Names(events) = <<"connected", "log", "log-error", "disconnected">>
  /\ chunks < MaxChunks
  /\ logStream = "errored"

\* An exception was raised while the driver was being started: the initial
\* poll threw, or the catch of streamCommandLogs threw.
DriverStartThrew ==
  \/ 1 \in dropped
  \/ (logStream = "failed" /\ \A i \in 1..Len(events) :
                                events[i] # LogsFailedEvent)

\* C23: an exception raised while a driver is being started is converted
\* into exactly one 'Stream error' event by handleEventStream, which records
\* no cleanup and lets nothing propagate.
C23_DriverStartExceptionCaught ==
  (DriverStartThrew /\ ~Resuming(hes)) =>
    /\ Cardinality({i \in 1..Len(events) : events[i] = StreamErrorEvent}) = 1
    /\ hes = "done"
    /\ "handleEventStream" \notin uncaught
    /\ ~cleanupFunction

\* The event name of a poll subscription's kind.
PollEventName ==
  IF eventType = "sandbox-status" THEN "sandbox-status" ELSE "sessions-update"

\* C24: on an open channel each successful poll fetch writes exactly one
\* event, named after the subscription's kind (never after the other kind)
\* and carrying the request's sandboxId; the first fetch is started with the
\* driver, and the timer exists only once that fetch has settled.
C24_PollFetchOneEvent ==
  (phase = "streaming" /\ IsPoll(eventType)) =>
    /\ \A f \in FetchIds :
         (fetch[f] = "ok" /\ f \notin dropped) =>
           Cardinality({i \in 1..Len(events) :
                          events[i] = Ev(PollEventName, request.sandboxId[1], f)})
             = 1
    /\ \A i \in 1..Len(events) :
         IsPollEvent(i) =>
           /\ events[i].name = PollEventName
           /\ events[i].msg = request.sandboxId[1]
           /\ fetch[events[i].seq] = "ok"
    /\ CountName(events, PollEventName)
         = Cardinality({f \in FetchIds : fetch[f] = "ok" /\ f \notin dropped})
    /\ fetch[1] # "none"
    /\ interval # "none" => fetch[1] \in {"ok", "fail"}

\* C24 witness: a sessions subscription on sbx-2 whose initial fetch and
\* first tick both succeeded.
C24_Witness ==
  /\ eventType = "sessions"
  /\ request.sandboxId = Some("sbx-2")
  /\ fetch[1] = "ok"
  /\ fetch[2] = "ok"
  /\ Names(events) = <<"connected", "sessions-update", "sessions-update">>

\* Calls of the cleanup closure that returned.
CleanupCalls ==
  Cardinality({i \in 1..Len(teardownLog) : teardownLog[i] = "cleanup"})

\* C25: the cleanup closure of a poll driver stops the timer, and calling it
\* again on the stopped timer returns without an error and leaves the timer
\* stopped: after one call and after two the timer is in the same state and
\* no further fetch is started.
C25_CleanupIdempotent ==
  /\ [](CleanupCalls >= 1 => (interval = "cleared" /\ "cleanup" \notin uncaught))
  /\ [][(teardowns' > teardowns /\ cleanupFunction) =>
          (CleanupCalls' = CleanupCalls + 1 /\ interval' = "cleared")]_vars
  /\ [][CleanupCalls >= 1 => (interval' = interval /\ Issued' = Issued)]_vars

\* C25 witness: the closure has been called twice.
C25_Witness ==
  /\ cleanupFunction
  /\ teardowns = 2
  /\ CleanupCalls = 2
  /\ interval = "cleared"

\* C26: channels are independent: two channels never hold the same
\* controller or the same Timeout, so a step taken for one channel (driver
\* start, tick, fetch completion, chunk arrival, teardown) leaves the other
\* channel's event sequence, open/closed status, timer and cleanup callback
\* unchanged; in particular a teardown of one channel leaves the other
\* channel's timer armed.
C26_ChannelsIndependent ==
  /\ [](/\ controllerRef # 0 => parked.controllerRef # controllerRef
        /\ intervalRef # 0 => parked.intervalRef # intervalRef)
  /\ [][self' = self =>
          /\ parked'.events = parked.events
          /\ parked'.closed = parked.closed
          /\ parked'.interval = parked.interval
          /\ parked'.cleanupFunction = parked.cleanupFunction
          /\ parked' = parked]_vars
  /\ [][(self' = self /\ teardowns' > teardowns /\ parked.interval = "active") =>
          parked'.interval = "active"]_vars

\* C26 witness: both channels armed a timer; one has been torn down and its
\* timer cleared, while the other's timer is active and its channel open
\* with events written.
C26_Witness ==
  /\ closed
  /\ teardowns = 1
  /\ interval = "cleared"
  /\ intervalRef # 0
  /\ parked.intervalRef # 0
  /\ parked.controllerRef # 0
  /\ parked.interval = "active"
  /\ ~parked.closed
  /\ Len(parked.events) >= 2

\* The error the tool's upstream call was rejected with.
toolError == toolOutcome.error

\* C27: handleApiError gives one of three messages, by priority: with a
\* response, the status and the body detail (also when a request is there);
\* else with a request, 'No response received'; else the error's message;
\* each after the default message, in an `## Error` text content.
C27_ErrorMessageForms ==
  (toolPhase = "returned" /\ toolOutcome.kind = "error") =>
    LET d == defaultMessage(toolCall)
    IN /\ toolResult.type = "text"
       /\ toolResult.heading = "## Error"
       /\ toolError.response # None =>
            toolResult.body =
              d \o ": " \o ToString(toolError.response[1].status) \o " - "
                \o bodyDetail(toolError.response[1].data)
       /\ (toolError.response = None /\ toolError.request) =>
            toolResult.body = d \o ": No response received"
       /\ (toolError.response = None /\ ~toolError.request) =>
            toolResult.body = d \o ": " \o toolError.message

\* C27 witness: an error that carries both a response and a request, the
\* response's body with a message.
C27_Witness ==
  /\ toolPhase = "returned"
  /\ toolOutcome.kind = "error"
  /\ toolError.response # None
  /\ toolError.request
  /\ toolResult.body = "Failed to get sandbox a: 404 - Sandbox not found"

\* An optional id as the string option searchParams.get would give for it.
OptStr(p) == IF p = None THEN None ELSE Some(Str(p[1]))

\* getSSEConnectionUrl has returned; what GET reads off the URL it gave.
ConnectionUrlReturned ==
  toolCall.tool = "getSSEConnectionUrl" /\ toolPhase = "returned"
ConnectionUrlParsed == parseRequest(toolResult.body.url)

\* C28 as stated: GET reads off the URL of getSSEConnectionUrl the same
\* sandboxId, the same sessionId and commandId (absent when omitted) and the
\* same eventType (sandbox-status when omitted, on both sides), and the tool
\* makes no upstream call.
C28_UrlRoundTripExact ==
  ConnectionUrlReturned =>
    /\ ConnectionUrlParsed.sandboxId = Some(Str(toolCall.sandboxId))
    /\ ConnectionUrlParsed.sessionId = OptStr(toolCall.sessionId)
    /\ ConnectionUrlParsed.commandId = OptStr(toolCall.commandId)
    /\ OrDefault(ConnectionUrlParsed.eventType, "sandbox-status")
         = toolResult.body.eventType
    /\ toolResult.body.eventType =
         (IF toolCall.eventType = None THEN "sandbox-status"
                                       ELSE toolCall.eventType[1])
    /\ toolUpstream = 0

\* C28 amended: the same, except that an empty sessionId or commandId is
\* left out of the URL like an omitted one, and GET reads it as absent.
C28_UrlRoundTrip ==
  ConnectionUrlReturned =>
    /\ ConnectionUrlParsed.sandboxId = Some(Str(toolCall.sandboxId))
    /\ ConnectionUrlParsed.sessionId =
         (IF TruthyId(toolCall.sessionId) THEN OptStr(toolCall.sessionId)
                                          ELSE None)
    /\ ConnectionUrlParsed.commandId =
         (IF TruthyId(toolCall.commandId) THEN OptStr(toolCall.commandId)
                                          ELSE None)
    /\ OrDefault(ConnectionUrlParsed.eventType, "sandbox-status")
         = toolResult.body.eventType
    /\ toolResult.body.eventType =
         (IF toolCall.eventType = None THEN "sandbox-status"
                                       ELSE toolCall.eventType[1])
    /\ toolUpstream = 0

\* C28 witness: ids made of the characters a URL reserves, an empty
\* commandId, and no eventType.
C28_Witness ==
  /\ ConnectionUrlReturned
  /\ toolCall.sandboxId = <<"=">>
  /\ toolCall.sessionId = Some(<<"&">>)
  /\ toolCall.commandId = Some(<<>>)
  /\ toolCall.eventType = None
  /\ ConnectionUrlParsed.sessionId = Some("&")
  /\ ConnectionUrlParsed.commandId = None

\* C29: a tool handler returns a text content for every outcome of its
\* upstream call (the formatted response when it resolved, the `## Error`
\* content of handleApiError when it was rejected), lets no failure out as
\* an exception, and makes at most one upstream call.
C29_ToolAlwaysReturnsContent ==
  /\ toolPhase # "threw"
  /\ toolUpstream <= 1
  /\ toolOutcome.kind # "none" => toolPhase = "returned"
  /\ toolPhase = "returned" => toolResult.type = "text"
  /\ (toolPhase = "returned" /\ toolOutcome.kind = "error") =>
       /\ toolResult.heading = "## Error"
       /\ toolResult = handleApiError(toolError, defaultMessage(toolCall))
  /\ (toolPhase = "returned" /\ toolOutcome.kind = "ok") =>
       /\ toolResult.heading # "## Error"
       /\ toolResult = successResponse(toolCall, toolOutcome.data)

\* C29 witness: executeCommand whose upstream call got no response.
C29_Witness ==
  /\ toolCall.tool = "executeCommand"
  /\ toolPhase = "returned"
  /\ toolUpstream = 1
  /\ toolOutcome.kind = "error"
  /\ toolError.response = None
  /\ toolResult.heading = "## Error"

\* C30: getSessionCommandLogs with useSSE makes no upstream call and returns
\* an SSE URL off which GET reads eventType logs and the three ids given, so
\* that non-empty ids meet the precondition of the logs case; without useSSE
\* it makes exactly one upstream call and returns no SSE URL.
C30_LogsToolSseOrUpstream ==
  toolCall.tool = "getSessionCommandLogs" =>
    IF TruthyFlag(toolCall.useSSE)
      THEN /\ toolPhase = "returned"
           /\ toolUpstream = 0
           /\ toolResult.body.sseUrl # None
           /\ LET r == parseRequest(toolResult.body.sseUrl[1])
              IN /\ r.eventType = Some("logs")
                 /\ r.sandboxId = Some(Str(toolCall.sandboxId))
                 /\ r.sessionId = OptStr(toolCall.sessionId)
                 /\ r.commandId = OptStr(toolCall.commandId)
                 /\ (TruthyId(toolCall.sessionId) /\ TruthyId(toolCall.commandId))
                      => LogsIdsPresent(r.sessionId, r.commandId)
      ELSE /\ toolUpstream = 1
           /\ (toolPhase = "returned" /\ toolOutcome.kind = "ok") =>
                toolResult.body.sseUrl = None
           /\ (toolPhase = "returned" /\ toolOutcome.kind = "error") =>
                toolResult.heading = "## Error"

====
